---------------------------- MODULE Spec2Model ----------------------------
(***************************************************************************)
(* A model of the riskv RV32I emulator: the bit-field codecs, Instruction  *)
(* decode / encode / execute, the pseudoinstruction expander, the register *)
(* file, the CSR bank and the memory.                                      *)
(*                                                                         *)
(* Representation of machine integers.  A 32-bit value, whether the Rust   *)
(* type is u32 or i32, is held as the two's-complement signed reading of   *)
(* its 32 bits, a number in -2^31 .. 2^31-1.  The casts as_signed and      *)
(* as_unsigned (src/src/integer.rs:113-146) reinterpret the bits, so they  *)
(* are the identity on this representation; unsigned comparison, logical   *)
(* shifts and wrapping arithmetic are defined on the bit pattern below.    *)
(* No intermediate result of any operator leaves the 32-bit signed range.  *)
(***************************************************************************)
EXTENDS Integers, Sequences, FiniteSets, TLC

(***************************************************************************)
(* 32-bit machine arithmetic                                               *)
(***************************************************************************)
Pow2(k) ==
    <<1, 2, 4, 8, 16, 32, 64, 128, 256, 512, 1024, 2048, 4096, 8192, 16384,
      32768, 65536, 131072, 262144, 524288, 1048576, 2097152, 4194304,
      8388608, 16777216, 33554432, 67108864, 134217728, 268435456,
      536870912, 1073741824>>[k + 1]

MaxI32 == Pow2(30) + (Pow2(30) - 1)

MinI32 == (0 - Pow2(30)) - Pow2(30)

I32 == MinI32 .. MaxI32

\* bit k (0..31) of the pattern x
Bit(x, k) == IF k = 31 THEN (IF x < 0 THEN 1 ELSE 0) ELSE (x \div Pow2(k)) % 2

\* (x & mask) >> lo  for the mask of the n bits lo .. lo+n-1, n <= 30, as an
\* unsigned number
Field(x, lo, n) == (x \div Pow2(lo)) % Pow2(n)

\* x & mask  for the mask of the n bits lo .. lo+n-1
AndRange(x, lo, n) ==
    IF lo = 31 THEN (IF x < 0 THEN MinI32 ELSE 0)
    ELSE IF lo + n = 32 THEN (x \div Pow2(lo)) * Pow2(lo)
    ELSE Field(x, lo, n) * Pow2(lo)

BitNot(a) == (0 - 1) - a

RECURSIVE BitAnd(_, _)
BitAnd(a, b) ==
    IF a = 0 \/ b = 0 THEN 0
    ELSE IF a = -1 THEN b
    ELSE IF b = -1 THEN a
    ELSE 2 * BitAnd(a \div 2, b \div 2) + ((a % 2) * (b % 2))

RECURSIVE BitOr(_, _)
BitOr(a, b) ==
    IF a = -1 \/ b = -1 THEN -1
    ELSE IF a = 0 THEN b
    ELSE IF b = 0 THEN a
    ELSE 2 * BitOr(a \div 2, b \div 2)
           + (IF (a % 2) + (b % 2) > 0 THEN 1 ELSE 0)

RECURSIVE BitXor(_, _)
BitXor(a, b) ==
    IF a = 0 THEN b
    ELSE IF b = 0 THEN a
    ELSE IF a = -1 THEN BitNot(b)
    ELSE IF b = -1 THEN BitNot(a)
    ELSE 2 * BitXor(a \div 2, b \div 2) + (((a % 2) + (b % 2)) % 2)

\* x << n on 32 bits, 0 <= n <= 31 (bits shifted out are lost)
Shl32(x, n) ==
    IF n = 0 THEN x
    ELSE IF n = 31 THEN (IF Bit(x, 0) = 1 THEN MinI32 ELSE 0)
    ELSE (x % Pow2(31 - n)) * Pow2(n)
           + (IF Bit(x, 31 - n) = 1 THEN MinI32 ELSE 0)

\* logical (zero-filling) x >> n of a u32, 0 <= n <= 31
LShr32(x, n) ==
    IF n = 31 THEN (IF x < 0 THEN 1 ELSE 0)
    ELSE IF n = 0 \/ x >= 0 THEN x \div Pow2(n)
    ELSE ((x \div Pow2(n)) + Pow2(31 - n)) + Pow2(31 - n)

\* arithmetic (sign-filling) x >> n of an i32, 0 <= n <= 31
AShr32(x, n) == IF n = 31 THEN (IF x < 0 THEN -1 ELSE 0) ELSE x \div Pow2(n)

\* a + b leaves the signed 32-bit range
AddOverflows(a, b) ==
    \/ b > 0 /\ a > MaxI32 - b
    \/ b < 0 /\ a < MinI32 - b

\* an addition that saturates at the ends of the i32 range
SaturatingAdd(a, b) ==
    IF b > 0 /\ a > MaxI32 - b THEN MaxI32
    ELSE IF b < 0 /\ a < MinI32 - b THEN MinI32
    ELSE a + b

\* i32::wrapping_add; also u32 addition of two patterns modulo 2^32
WrappingAdd(a, b) ==
    IF b > 0 /\ a > MaxI32 - b
    THEN ((a - Pow2(30)) - Pow2(30)) + ((b - Pow2(30)) - Pow2(30))
    ELSE IF b < 0 /\ a < MinI32 - b
    THEN ((a + Pow2(30)) + Pow2(30)) + ((b + Pow2(30)) + Pow2(30))
    ELSE a + b

\* i32::wrapping_sub
WrappingSub(a, b) ==
    IF b = MinI32 THEN WrappingAdd(WrappingAdd(a, MaxI32), 1)
    ELSE WrappingAdd(a, 0 - b)

\* a < b as signed numbers
SignedLess(a, b) == a < b

\* a < b after reinterpreting both as u32
UnsignedLess(a, b) ==
    IF (a < 0) = (b < 0) THEN a < b ELSE b < 0

\* `as i16` of a 32-bit pattern
AsI16(x) ==
    LET low == x % Pow2(16)
    IN  IF low >= Pow2(15) THEN low - Pow2(16) ELSE low

\* `as i8` of a 32-bit pattern
AsI8(x) ==
    LET low == x % Pow2(8)
    IN  IF low >= Pow2(7) THEN low - Pow2(8) ELSE low

\* Rust's remainder: the sign of the result follows the dividend
Rem(a, b) == IF a >= 0 \/ a % b = 0 THEN a % b ELSE (a % b) - b

(***************************************************************************)
(* Registers (src/src/registers.rs)                                        *)
(***************************************************************************)
ZERO == 0
RA == 1
T1 == 6
A0 == 10
T6 == 31

Register == 0 .. 31

RegisterConstFrom(value) == value % 32

(***************************************************************************)
(* integer.rs: the 12-bit signed integer                                   *)
(***************************************************************************)
I12_MAX == 2047
I12_MIN == -2048
I12_MASK == 4095

I12IsPositive(value) == Bit(value, 11) = 0

I12SignExtend(value) ==
    IF I12IsPositive(value) THEN AsI16(BitAnd(value, 2047))
    ELSE AsI16(BitOr(BitAnd(value, 4095), 61440))

(***************************************************************************)
(* Bit-field codecs (src/src/instructions/*.rs)                            *)
(***************************************************************************)
RdDecode(value) == RegisterConstFrom(Field(value, 7, 5))
RdEncode(value) == Shl32(value, 7)

Rs1Decode(value) == RegisterConstFrom(Field(value, 15, 5))
Rs1Encode(value) == Shl32(value, 15)

Rs2Decode(value) == RegisterConstFrom(Field(value, 20, 5))
Rs2Encode(value) == Shl32(value, 20)

Funct3Decode(value) == Field(value, 12, 3)

Funct6Decode(value) == LShr32(value, 26) % Pow2(8)

Funct7Decode(value) == LShr32(value, 25) % Pow2(8)

ShamtDecode(value) == Field(value, 20, 6) % Pow2(8)
ShamtEncode(value) == AndRange(Shl32(value, 20), 20, 6)

CsrDecode(value) == LShr32(value, 20) % Pow2(16)
CsrEncode(value) == Shl32(value, 20)

CsrImmDecode(value) == Field(value, 15, 5) % Pow2(8)
CsrImmEncode(value) == AndRange(Shl32(value, 15), 15, 5)

ImmIDecode(value) == AsI16(AShr32(value, 20))
ImmIEncode(value) == Shl32(value, 20)

ImmUDecode(value) == LShr32(value, 12)
ImmUEncode(value) == Shl32(value, 12)

SImmIDecode(value) ==
    AsI16(AShr32(AndRange(value, 25, 7), 20) + AShr32(AndRange(value, 7, 5), 7))

\* the sum of the two shifted copies without the final & FULL_MASK
SImmIEncodeUnmasked(value) ==
    LET trunk == BitAnd(value, I12_MASK)
    IN  WrappingAdd(Shl32(trunk, 20), Shl32(trunk, 7))

SImmIEncode(value) ==
    LET trunk == BitAnd(value, I12_MASK)
        FULL_MASK == AndRange(-1, 25, 7) + AndRange(-1, 7, 5)
    IN  BitAnd(WrappingAdd(Shl32(trunk, 20), Shl32(trunk, 7)), FULL_MASK)

BImmDecode(value) ==
    BitAnd(AsI16(((AShr32(AndRange(value, 31, 1), 19)
                    + Shl32(AndRange(value, 7, 1), 4))
                    + AShr32(AndRange(value, 25, 6), 20))
                    + AShr32(AndRange(value, 8, 4), 7)),
           -2)

BImmEncode(value) ==
    WrappingAdd(
        WrappingAdd(
            WrappingAdd(AndRange(Shl32(value, 19), 31, 1),
                        AndRange(LShr32(value, 4), 7, 1)),
            AndRange(Shl32(value, 20), 25, 6)),
        AndRange(Shl32(value, 7), 8, 4))

JImmDecode(value) ==
    BitAnd(((AndRange(value, 12, 8)
              + AShr32(AndRange(value, 31, 1), 11))
              + LShr32(AndRange(value, 21, 10), 20))
              + LShr32(AndRange(value, 20, 1), 9),
           -2)

JImmEncode(value) ==
    WrappingAdd(
        WrappingAdd(
            WrappingAdd(AndRange(Shl32(value, 11), 31, 1),
                        AndRange(Shl32(value, 20), 21, 10)),
            AndRange(Shl32(value, 9), 20, 1)),
        AndRange(value, 12, 8))


(***************************************************************************)
(* Instruction types (src/src/instructions/types.rs)                       *)
(***************************************************************************)
TypesREncode(rd, rs1, rs2) ==
    WrappingAdd(WrappingAdd(RdEncode(rd), Rs1Encode(rs1)), Rs2Encode(rs2))

TypesIEncode(rd, rs1, imm) ==
    WrappingAdd(WrappingAdd(RdEncode(rd), Rs1Encode(rs1)), ImmIEncode(imm))

TypesIEncodeCsr(rd, rs1, csr) ==
    WrappingAdd(WrappingAdd(RdEncode(rd), Rs1Encode(rs1)), CsrEncode(csr))

TypesIEncodeCsri(rd, imm, csr) ==
    WrappingAdd(WrappingAdd(RdEncode(rd), CsrImmEncode(imm)), CsrEncode(csr))

TypesIEncodeShamt(rd, rs1, shamt) ==
    WrappingAdd(WrappingAdd(RdEncode(rd), Rs1Encode(rs1)), ShamtEncode(shamt))

TypesUEncode(rd, imm) == WrappingAdd(RdEncode(rd), ImmUEncode(imm))

TypesSEncode(rs1, rs2, simmi) ==
    WrappingAdd(WrappingAdd(Rs1Encode(rs1), Rs2Encode(rs2)), SImmIEncode(simmi))

\* types::B and types::J are used by Instruction::encode but their source is
\* not part of the available files; they follow the pattern of the others.
TypesBEncode(rs1, rs2, offset) ==
    WrappingAdd(WrappingAdd(Rs1Encode(rs1), Rs2Encode(rs2)), BImmEncode(offset))

TypesJEncode(rd, offset) == WrappingAdd(RdEncode(rd), JImmEncode(offset))

(***************************************************************************)
(* Instruction::decode and Instruction::encode                              *)
(* (src/src/instructions/mod.rs)                                            *)
(***************************************************************************)
Ok(i) == [ok |-> TRUE, instruction |-> i]

UnimplementedInstruction(value) ==
    [ok |-> FALSE, exception |-> "UnimplementedInstruction", word |-> value]

OpCode(value) == Field(value, 0, 7)

U_(op, value) == [op |-> op, rd |-> RdDecode(value), imm |-> ImmUDecode(value)]

I_(op, value) ==
    [op |-> op, rd |-> RdDecode(value), rs1 |-> Rs1Decode(value),
     imm |-> ImmIDecode(value)]

Sh_(op, value) ==
    [op |-> op, rd |-> RdDecode(value), rs1 |-> Rs1Decode(value),
     shamt |-> ShamtDecode(value)]

R_(op, value) ==
    [op |-> op, rd |-> RdDecode(value), rs1 |-> Rs1Decode(value),
     rs2 |-> Rs2Decode(value)]

L_(op, value) ==
    [op |-> op, rd |-> RdDecode(value), rs1 |-> Rs1Decode(value),
     offset |-> ImmIDecode(value)]

S_(op, value) ==
    [op |-> op, rs1 |-> Rs1Decode(value), rs2 |-> Rs2Decode(value),
     offset |-> SImmIDecode(value)]

C_(op, value) ==
    [op |-> op, rd |-> RdDecode(value), rs1 |-> Rs1Decode(value),
     csr |-> CsrDecode(value)]

Ci_(op, value) ==
    [op |-> op, rd |-> RdDecode(value), imm |-> CsrImmDecode(value),
     csr |-> CsrDecode(value)]

B_(op, value) ==
    [op |-> op, rs1 |-> Rs1Decode(value), rs2 |-> Rs2Decode(value),
     offset |-> BImmDecode(value)]

DecodeOpImm(value) ==
    LET funct3 == Funct3Decode(value)
        funct6 == Funct6Decode(value)
    IN  CASE funct3 = 0 -> Ok(I_("ADDI", value))
          [] funct3 = 1 -> Ok(Sh_("SLLI", value))
          [] funct3 = 2 -> Ok(I_("SLTI", value))
          [] funct3 = 3 -> Ok(I_("SLTIU", value))
          [] funct3 = 4 -> Ok(I_("XORI", value))
          [] funct3 = 5 /\ funct6 = 0 -> Ok(Sh_("SRLI", value))
          [] funct3 = 5 /\ funct6 = 16 -> Ok(Sh_("SRAI", value))
          [] funct3 = 6 -> Ok(I_("ORI", value))
          [] funct3 = 7 -> Ok(I_("ANDI", value))
          [] OTHER -> UnimplementedInstruction(value)

DecodeOp(value) ==
    LET funct3 == Funct3Decode(value)
        funct7 == Funct7Decode(value)
    IN  CASE funct3 = 0 /\ funct7 = 0 -> Ok(R_("ADD", value))
          [] funct3 = 0 /\ funct7 = 32 -> Ok(R_("SUB", value))
          [] funct3 = 1 /\ funct7 = 0 -> Ok(R_("SLL", value))
          [] funct3 = 2 /\ funct7 = 0 -> Ok(R_("SLT", value))
          [] funct3 = 3 /\ funct7 = 0 -> Ok(R_("SLTU", value))
          [] funct3 = 4 /\ funct7 = 0 -> Ok(R_("XOR", value))
          [] funct3 = 5 /\ funct7 = 0 -> Ok(R_("SRL", value))
          [] funct3 = 5 /\ funct7 = 32 -> Ok(R_("SRA", value))
          [] funct3 = 6 /\ funct7 = 0 -> Ok(R_("OR", value))
          [] funct3 = 7 /\ funct7 = 0 -> Ok(R_("AND", value))
          [] OTHER -> UnimplementedInstruction(value)

DecodeLoad(value) ==
    LET funct3 == Funct3Decode(value)
    IN  CASE funct3 = 0 -> Ok(L_("LB", value))
          [] funct3 = 1 -> Ok(L_("LH", value))
          [] funct3 = 2 -> Ok(L_("LW", value))
          [] funct3 = 4 -> Ok(L_("LBU", value))
          [] funct3 = 5 -> Ok(L_("LHU", value))
          [] OTHER -> UnimplementedInstruction(value)

DecodeStore(value) ==
    LET funct3 == Funct3Decode(value)
    IN  CASE funct3 = 0 -> Ok(S_("SB", value))
          [] funct3 = 1 -> Ok(S_("SH", value))
          [] funct3 = 2 -> Ok(S_("SW", value))
          [] OTHER -> UnimplementedInstruction(value)

DecodeSystem(value) ==
    LET funct3 == Funct3Decode(value)
    IN  CASE funct3 = 1 -> Ok(C_("CSRRW", value))
          [] funct3 = 2 -> Ok(C_("CSRRS", value))
          [] funct3 = 3 -> Ok(C_("CSRRC", value))
          [] funct3 = 5 -> Ok(Ci_("CSRRWI", value))
          [] funct3 = 6 -> Ok(Ci_("CSRRSI", value))
          [] funct3 = 7 -> Ok(Ci_("CSRRCI", value))
          [] OTHER -> UnimplementedInstruction(value)

DecodeBranch(value) ==
    LET funct3 == Funct3Decode(value)
    IN  CASE funct3 = 0 -> Ok(B_("BEQ", value))
          [] funct3 = 1 -> Ok(B_("BNE", value))
          [] funct3 = 4 -> Ok(B_("BLT", value))
          [] funct3 = 5 -> Ok(B_("BGE", value))
          [] funct3 = 6 -> Ok(B_("BLTU", value))
          [] funct3 = 7 -> Ok(B_("BGEU", value))
          [] OTHER -> UnimplementedInstruction(value)

Decode(value) ==
    LET opcode == OpCode(value)
    IN  CASE opcode = 55 -> Ok(U_("LUI", value))
          [] opcode = 23 -> Ok(U_("AUIPC", value))
          [] opcode = 19 -> DecodeOpImm(value)
          [] opcode = 51 -> DecodeOp(value)
          [] opcode = 3 -> DecodeLoad(value)
          [] opcode = 35 -> DecodeStore(value)
          [] opcode = 115 -> DecodeSystem(value)
          [] opcode = 111 ->
                Ok([op |-> "JAL", rd |-> RdDecode(value),
                    offset |-> JImmDecode(value)])
          [] opcode = 99 -> DecodeBranch(value)
          [] opcode = 103 ->
                IF Funct3Decode(value) = 0 THEN Ok(L_("JALR", value))
                ELSE UnimplementedInstruction(value)
          [] OTHER -> UnimplementedInstruction(value)

\* the literal 0b_fffffff_00000_00000_ttt_00000_ooooooo of an encode arm
Base(funct7, funct3, opcode) == funct7 * Pow2(25) + funct3 * Pow2(12) + opcode

Encode(i) ==
    CASE i.op = "LUI" -> WrappingAdd(Base(0, 0, 55), TypesUEncode(i.rd, i.imm))
      [] i.op = "AUIPC" -> WrappingAdd(Base(0, 0, 23), TypesUEncode(i.rd, i.imm))
      [] i.op = "ADDI" -> WrappingAdd(Base(0, 0, 19), TypesIEncode(i.rd, i.rs1, i.imm))
      [] i.op = "SLTI" -> WrappingAdd(Base(0, 2, 19), TypesIEncode(i.rd, i.rs1, i.imm))
      [] i.op = "SLTIU" -> WrappingAdd(Base(0, 3, 19), TypesIEncode(i.rd, i.rs1, i.imm))
      [] i.op = "XORI" -> WrappingAdd(Base(0, 4, 19), TypesIEncode(i.rd, i.rs1, i.imm))
      [] i.op = "ORI" -> WrappingAdd(Base(0, 6, 19), TypesIEncode(i.rd, i.rs1, i.imm))
      [] i.op = "ANDI" -> WrappingAdd(Base(0, 7, 19), TypesIEncode(i.rd, i.rs1, i.imm))
      [] i.op = "SLLI" -> WrappingAdd(Base(0, 1, 19), TypesIEncodeShamt(i.rd, i.rs1, i.shamt))
      [] i.op = "SRLI" -> WrappingAdd(Base(0, 5, 19), TypesIEncodeShamt(i.rd, i.rs1, i.shamt))
      [] i.op = "SRAI" -> WrappingAdd(Base(32, 5, 19), TypesIEncodeShamt(i.rd, i.rs1, i.shamt))
      [] i.op = "ADD" -> WrappingAdd(Base(0, 0, 51), TypesREncode(i.rd, i.rs1, i.rs2))
      [] i.op = "SUB" -> WrappingAdd(Base(32, 0, 51), TypesREncode(i.rd, i.rs1, i.rs2))
      [] i.op = "SLL" -> WrappingAdd(Base(0, 1, 51), TypesREncode(i.rd, i.rs1, i.rs2))
      [] i.op = "SLT" -> WrappingAdd(Base(0, 2, 51), TypesREncode(i.rd, i.rs1, i.rs2))
      [] i.op = "SLTU" -> WrappingAdd(Base(0, 3, 51), TypesREncode(i.rd, i.rs1, i.rs2))
      [] i.op = "XOR" -> WrappingAdd(Base(0, 4, 51), TypesREncode(i.rd, i.rs1, i.rs2))
      [] i.op = "SRL" -> WrappingAdd(Base(0, 5, 51), TypesREncode(i.rd, i.rs1, i.rs2))
      [] i.op = "SRA" -> WrappingAdd(Base(32, 5, 51), TypesREncode(i.rd, i.rs1, i.rs2))
      [] i.op = "OR" -> WrappingAdd(Base(0, 6, 51), TypesREncode(i.rd, i.rs1, i.rs2))
      [] i.op = "AND" -> WrappingAdd(Base(0, 7, 51), TypesREncode(i.rd, i.rs1, i.rs2))
      [] i.op = "LB" -> WrappingAdd(Base(0, 0, 3), TypesIEncode(i.rd, i.rs1, i.offset))
      [] i.op = "LH" -> WrappingAdd(Base(0, 1, 3), TypesIEncode(i.rd, i.rs1, i.offset))
      [] i.op = "LW" -> WrappingAdd(Base(0, 2, 3), TypesIEncode(i.rd, i.rs1, i.offset))
      [] i.op = "LBU" -> WrappingAdd(Base(0, 4, 3), TypesIEncode(i.rd, i.rs1, i.offset))
      [] i.op = "LHU" -> WrappingAdd(Base(0, 5, 3), TypesIEncode(i.rd, i.rs1, i.offset))
      [] i.op = "SB" -> WrappingAdd(Base(0, 0, 35), TypesSEncode(i.rs1, i.rs2, i.offset))
      [] i.op = "SH" -> WrappingAdd(Base(0, 1, 35), TypesSEncode(i.rs1, i.rs2, i.offset))
      [] i.op = "SW" -> WrappingAdd(Base(0, 2, 35), TypesSEncode(i.rs1, i.rs2, i.offset))
      [] i.op = "CSRRW" -> WrappingAdd(Base(0, 1, 115), TypesIEncodeCsr(i.rd, i.rs1, i.csr))
      [] i.op = "CSRRS" -> WrappingAdd(Base(0, 2, 115), TypesIEncodeCsr(i.rd, i.rs1, i.csr))
      [] i.op = "CSRRC" -> WrappingAdd(Base(0, 3, 115), TypesIEncodeCsr(i.rd, i.rs1, i.csr))
      [] i.op = "CSRRWI" -> WrappingAdd(Base(0, 5, 115), TypesIEncodeCsri(i.rd, i.imm, i.csr))
      [] i.op = "CSRRSI" -> WrappingAdd(Base(0, 6, 115), TypesIEncodeCsri(i.rd, i.imm, i.csr))
      [] i.op = "CSRRCI" -> WrappingAdd(Base(0, 7, 115), TypesIEncodeCsri(i.rd, i.imm, i.csr))
      [] i.op = "JAL" -> WrappingAdd(Base(0, 0, 111), TypesJEncode(i.rd, i.offset))
      [] i.op = "JALR" -> WrappingAdd(Base(0, 0, 103), TypesIEncode(i.rd, i.rs1, i.offset))
      [] i.op = "BEQ" -> WrappingAdd(Base(0, 0, 99), TypesBEncode(i.rs1, i.rs2, i.offset))
      [] i.op = "BNE" -> WrappingAdd(Base(0, 1, 99), TypesBEncode(i.rs1, i.rs2, i.offset))
      [] i.op = "BLT" -> WrappingAdd(Base(0, 4, 99), TypesBEncode(i.rs1, i.rs2, i.offset))
      [] i.op = "BGE" -> WrappingAdd(Base(0, 5, 99), TypesBEncode(i.rs1, i.rs2, i.offset))
      [] i.op = "BLTU" -> WrappingAdd(Base(0, 6, 99), TypesBEncode(i.rs1, i.rs2, i.offset))
      [] i.op = "BGEU" -> WrappingAdd(Base(0, 7, 99), TypesBEncode(i.rs1, i.rs2, i.offset))

(***************************************************************************)
(* Pseudoinstruction expander                                              *)
(* (src/src/instructions/pseudoinstructions.rs)                            *)
(***************************************************************************)
WithSignedI12Adjustment(value) == IF I12IsPositive(value) THEN 0 ELSE 1

\* a load immediate whose LUI takes no adjustment for a negative low part
LiWithoutAdjustment(rd, imm) ==
    IF imm >= I12_MIN /\ imm <= I12_MAX
    THEN <<[op |-> "ADDI", rd |-> rd, rs1 |-> ZERO, imm |-> AsI16(imm)]>>
    ELSE <<[op |-> "LUI", rd |-> rd, imm |-> AShr32(imm, 12)],
           [op |-> "ADDI", rd |-> rd, rs1 |-> rd, imm |-> I12SignExtend(imm)]>>

LI(rd, imm) ==
    IF imm >= I12_MIN /\ imm <= I12_MAX
    THEN <<[op |-> "ADDI", rd |-> rd, rs1 |-> ZERO, imm |-> AsI16(imm)]>>
    ELSE <<[op |-> "LUI", rd |-> rd,
            imm |-> AShr32(imm, 12) + WithSignedI12Adjustment(imm)],
           [op |-> "ADDI", rd |-> rd, rs1 |-> rd, imm |-> I12SignExtend(imm)]>>

\* a call whose AUIPC leaves the upper bits of the address out
CallWithoutUpperBits(address) ==
    <<[op |-> "AUIPC", rd |-> RA, imm |-> 0],
      [op |-> "JALR", rd |-> RA, rs1 |-> RA,
       offset |-> BitAnd(AsI16(address), I12_MASK)]>>

CALL(address) ==
    <<[op |-> "AUIPC", rd |-> RA, imm |-> AShr32(address, 12)],
      [op |-> "JALR", rd |-> RA, rs1 |-> RA,
       offset |-> BitAnd(AsI16(address), I12_MASK)]>>

TAIL(address) ==
    <<[op |-> "AUIPC", rd |-> T1, imm |-> AShr32(address, 12)],
      [op |-> "JALR", rd |-> ZERO, rs1 |-> T1,
       offset |-> BitAnd(AsI16(address), I12_MASK)]>>

\* a read of a CSR whose CSRRW names rd as its source as well
CsrrWithSource(rd, csr) ==
    <<[op |-> "CSRRW", rd |-> rd, rs1 |-> rd, csr |-> csr]>>

CSRR(rd, csr) == <<[op |-> "CSRRW", rd |-> rd, rs1 |-> ZERO, csr |-> csr]>>

CSRW(rs1, csr) == <<[op |-> "CSRRW", rd |-> ZERO, rs1 |-> rs1, csr |-> csr]>>

(***************************************************************************)
(* CSR bank (src/src/csr.rs).  A bank is held as the function from the     *)
(* indices of its non-zero cells to their values; every other cell of the  *)
(* CSR_SIZE cells holds the zero it was created with.                      *)
(***************************************************************************)
CSR_SIZE == 4096

CsrNew == [c \in {} |-> 0]

CsrCell(bank, index) == IF index \in DOMAIN bank THEN bank[index] ELSE 0

CsrStore(bank, index, value) ==
    [c \in (IF value = 0 THEN DOMAIN bank \ {index} ELSE DOMAIN bank \cup {index})
        |-> IF c = index THEN value ELSE bank[c]]

\* each operation yields the value returned and the bank afterwards
CsrRead(bank, index) == [old |-> CsrCell(bank, index), bank |-> bank]

CsrReadWrite(bank, index, value) ==
    [old |-> CsrCell(bank, index), bank |-> CsrStore(bank, index, value)]

\* a set_bits that returns the value the cell holds afterwards
CsrSetBitsReturningNew(bank, index, value) ==
    [old |-> BitOr(CsrCell(bank, index), value),
     bank |-> CsrStore(bank, index, BitOr(CsrCell(bank, index), value))]

CsrSetBits(bank, index, value) ==
    [old |-> CsrCell(bank, index),
     bank |-> CsrStore(bank, index, BitOr(CsrCell(bank, index), value))]

CsrClearBits(bank, index, value) ==
    [old |-> CsrCell(bank, index),
     bank |-> CsrStore(bank, index, BitAnd(CsrCell(bank, index), BitNot(value)))]

(***************************************************************************)
(* Memory (src/src/memory.rs): data is the Vec<u8>, byte k at data[k + 1]. *)
(***************************************************************************)
\* a resize that fills the new bytes with 0xFF
ResizeFilledWithOnes(data, location, N) ==
    IF location + N > Len(data)
    THEN data \o [k \in 1 .. (location + N - Len(data)) |-> 255]
    ELSE data

Resize(data, location, N) ==
    IF location + N > Len(data)
    THEN data \o [k \in 1 .. (location + N - Len(data)) |-> 0]
    ELSE data

ByteAt(data, location) == data[location + 1]

LoadByte(data, location) ==
    LET d == Resize(data, location, 1)
    IN  [value |-> AsI8(ByteAt(d, location)), data |-> d]

LoadHalf(data, location) ==
    LET d == Resize(data, location, 2)
    IN  [value |-> AsI16(ByteAt(d, location) + ByteAt(d, location + 1) * Pow2(8)),
         data |-> d]

LoadWord(data, location) ==
    LET d == Resize(data, location, 4)
    IN  [value |-> ((ByteAt(d, location) + ByteAt(d, location + 1) * Pow2(8))
                      + ByteAt(d, location + 2) * Pow2(16))
                      + AsI8(ByteAt(d, location + 3)) * Pow2(24),
         data |-> d]

ToLeByte(value, k) == Field(value, 8 * k, 8)

\* a copy of the big-endian bytes of the value
CopyFromSliceBigEndian(data, location, value, N) ==
    [k \in 1 .. Len(data) |->
        IF k - 1 >= location /\ k - 1 < location + N
        THEN ToLeByte(value, N - 1 - (k - 1 - location))
        ELSE data[k]]

CopyFromSlice(data, location, value, N) ==
    [k \in 1 .. Len(data) |->
        IF k - 1 >= location /\ k - 1 < location + N
        THEN ToLeByte(value, k - 1 - location)
        ELSE data[k]]

StoreByte(data, location, value) ==
    CopyFromSlice(Resize(data, location, 1), location, value, 1)

StoreHalf(data, location, value) ==
    CopyFromSlice(Resize(data, location, 2), location, value, 2)

StoreWord(data, location, value) ==
    CopyFromSlice(Resize(data, location, 4), location, value, 4)

(***************************************************************************)
(* Registers: Index / IndexMut and the ZeroRegister                        *)
(* (src/src/registers.rs).  registers[0] is ZeroRegister.zero, the cell    *)
(* shared references read; zero_scratch is ZeroRegister._zero, the cell a  *)
(* mutable reference to register 0 points at.                              *)
(*                                                                         *)
(* A processor p is the record of pc, registers, zero_scratch, csrs and    *)
(* memory.                                                                 *)
(***************************************************************************)
RegistersDefault == [r \in Register |-> 0]

\* Index<Register>: ZeroRegister::deref for register 0
Index(p, r) == p.registers[r]


\* a register file whose entry 0 is an ordinary register
IndexMutAssignZeroWritable(p, r, value) == [p EXCEPT !.registers[r] = value]

\* IndexMut<Register> followed by the assignment: ZeroRegister::deref_mut
\* resets _zero and hands out &mut _zero for register 0
IndexMutAssign(p, r, value) ==
    IF r = ZERO THEN [p EXCEPT !.zero_scratch = value]
    ELSE [p EXCEPT !.registers[r] = value]

ProcessorDefault ==
    [pc |-> 0, registers |-> RegistersDefault, zero_scratch |-> 0,
     csrs |-> CsrNew, memory |-> <<>>]

(***************************************************************************)
(* Instruction::execute (src/src/instructions/impl_instruction_set.rs)     *)
(*                                                                         *)
(* The arithmetic written with the plain operators + and << panics on      *)
(* overflow when the crate is built with overflow checks (the dev and test *)
(* profiles) and wraps otherwise (the release profile); checks is that     *)
(* property of the build.                                                  *)
(***************************************************************************)
SHIFT_MASK == 31

Done(p, pc) == [result |-> "Ok", p |-> [p EXCEPT !.pc = pc]]

Raise(p, exception) == [result |-> exception, p |-> p]

Panic(p) == [result |-> "panic", p |-> p]

BoolInto(b) == IF b THEN 1 ELSE 0

\* an address operand that leaves the offset out
AddressIgnoringOffset(p, i) == Index(p, i.rs1)

\* the address operand of a load or store, as the usize index
Address(p, i) == WrappingAdd(Index(p, i.rs1), i.offset)

ExecuteShiftImm(i, p, pc, checks) ==
    IF i.shamt >= 32 /\ checks THEN Panic(p)
    ELSE LET n == i.shamt % 32
             x == Index(p, i.rs1)
         IN  CASE i.op = "SLLI" -> Done(IndexMutAssign(p, i.rd, Shl32(x, n)), pc)
               [] i.op = "SRLI" -> Done(IndexMutAssign(p, i.rd, LShr32(x, n)), pc)
               [] i.op = "SRAI" -> Done(IndexMutAssign(p, i.rd, AShr32(x, n)), pc)


\* CSR instructions that write rd before reading rs1
ExecuteCsrRdFirst(i, p, pc) ==
    LET q == IndexMutAssign(p, i.rd, CsrCell(p.csrs, i.csr))
        r == CASE i.op = "CSRRW" -> CsrReadWrite(p.csrs, i.csr, Index(q, i.rs1))
               [] i.op = "CSRRS" -> CsrSetBits(p.csrs, i.csr, Index(q, i.rs1))
               [] i.op = "CSRRC" -> CsrClearBits(p.csrs, i.csr, Index(q, i.rs1))
               [] i.op = "CSRRWI" -> CsrReadWrite(p.csrs, i.csr, i.imm)
               [] i.op = "CSRRSI" -> CsrSetBits(p.csrs, i.csr, i.imm)
               [] i.op = "CSRRCI" -> CsrClearBits(p.csrs, i.csr, i.imm)
    IN  Done([q EXCEPT !.csrs = r.bank], pc)

ExecuteCsr(i, p, pc) ==
    IF i.csr >= CSR_SIZE THEN Panic(p)
    ELSE LET r ==
               CASE i.op = "CSRRW" /\ i.rs1 = ZERO -> CsrRead(p.csrs, i.csr)
                 [] i.op = "CSRRW" /\ i.rs1 # ZERO ->
                        CsrReadWrite(p.csrs, i.csr, Index(p, i.rs1))
                 [] i.op = "CSRRS" -> CsrSetBits(p.csrs, i.csr, Index(p, i.rs1))
                 [] i.op = "CSRRC" -> CsrClearBits(p.csrs, i.csr, Index(p, i.rs1))
                 [] i.op = "CSRRWI" -> CsrReadWrite(p.csrs, i.csr, i.imm)
                 [] i.op = "CSRRSI" -> CsrSetBits(p.csrs, i.csr, i.imm)
                 [] i.op = "CSRRCI" -> CsrClearBits(p.csrs, i.csr, i.imm)
         IN  Done(IndexMutAssign([p EXCEPT !.csrs = r.bank], i.rd, r.old), pc)

ExecuteLoad(i, p, pc) ==
    LET location == Address(p, i)
        r == CASE i.op = "LB" -> LoadByte(p.memory, location)
               [] i.op = "LH" -> LoadHalf(p.memory, location)
               [] i.op = "LW" -> LoadWord(p.memory, location)
               [] i.op = "LBU" ->
                    LET b == LoadByte(p.memory, location)
                    IN  [b EXCEPT !.value = b.value % Pow2(8)]
               [] i.op = "LHU" ->
                    LET h == LoadHalf(p.memory, location)
                    IN  [h EXCEPT !.value = h.value % Pow2(16)]
    IN  Done(IndexMutAssign([p EXCEPT !.memory = r.data], i.rd, r.value), pc)

\* stores that all write the whole word of rs2
ExecuteStoreWholeWord(i, p, pc) ==
    Done([p EXCEPT !.memory = StoreWord(p.memory, Address(p, i),
                                        Index(p, i.rs2))], pc)

ExecuteStore(i, p, pc) ==
    LET location == Address(p, i)
        value == Index(p, i.rs2)
    IN  CASE i.op = "SB" ->
               Done([p EXCEPT !.memory = StoreByte(p.memory, location, AsI8(value))], pc)
          [] i.op = "SH" ->
               Done([p EXCEPT !.memory = StoreHalf(p.memory, location, AsI16(value))], pc)
          [] i.op = "SW" ->
               Done([p EXCEPT !.memory = StoreWord(p.memory, location, value)], pc)


\* a JAL that writes the link register before it validates the target
ExecuteJalLinkFirst(i, p, pc, checks) ==
    LET jump == WrappingAdd(p.pc, i.offset)
        q == IndexMutAssign(p, i.rd, pc)
    IN  IF Rem(jump, 4) # 0 THEN Raise(q, "MisalignedInstructionFetch")
        ELSE Done(q, jump)

ExecuteJal(i, p, pc, checks) ==
    IF checks /\ AddOverflows(p.pc, i.offset) THEN Panic(p)
    ELSE LET jump == WrappingAdd(p.pc, i.offset)
         IN  IF Rem(jump, 4) # 0 THEN Raise(p, "MisalignedInstructionFetch")
             ELSE Done(IndexMutAssign(p, i.rd, pc), jump)


\* a JALR that writes the link register before it validates the target
ExecuteJalrLinkFirst(i, p, pc, checks) ==
    LET jump == BitAnd(WrappingAdd(Index(p, i.rs1), i.offset), BitNot(1))
        q == IndexMutAssign(p, i.rd, pc)
    IN  IF Rem(jump, 4) # 0 THEN Raise(q, "MisalignedInstructionFetch")
        ELSE Done(q, jump)

ExecuteJalr(i, p, pc, checks) ==
    IF checks /\ AddOverflows(Index(p, i.rs1), i.offset) THEN Panic(p)
    ELSE LET jump == BitAnd(WrappingAdd(Index(p, i.rs1), i.offset), BitNot(1))
         IN  IF Rem(jump, 4) # 0 THEN Raise(p, "MisalignedInstructionFetch")
             ELSE Done(IndexMutAssign(p, i.rd, pc), jump)

\* branch conditions that compare BLTU and BGEU operands as signed
BranchConditionSigned(i, p) ==
    LET a == Index(p, i.rs1)
        b == Index(p, i.rs2)
    IN  CASE i.op = "BEQ" -> a = b
          [] i.op = "BNE" -> a # b
          [] i.op \in {"BLT", "BLTU"} -> a < b
          [] i.op \in {"BGE", "BGEU"} -> a >= b

BranchCondition(i, p) ==
    LET a == Index(p, i.rs1)
        b == Index(p, i.rs2)
    IN  CASE i.op = "BEQ" -> a = b
          [] i.op = "BNE" -> a # b
          [] i.op = "BLT" -> a < b
          [] i.op = "BGE" -> a >= b
          [] i.op = "BLTU" -> UnsignedLess(a, b)
          [] i.op = "BGEU" -> ~UnsignedLess(a, b)

\* a branch that commits its target without validating anything
ExecuteBranchUnchecked(i, p, pc, checks) ==
    IF BranchCondition(i, p) THEN Done(p, WrappingAdd(p.pc, i.offset))
    ELSE Done(p, pc)

ExecuteBranch(i, p, pc, checks) ==
    IF BranchCondition(i, p)
    THEN IF Rem(i.offset, 4) # 0 THEN Raise(p, "MisalignedInstructionFetch")
         ELSE IF checks /\ AddOverflows(p.pc, i.offset) THEN Panic(p)
         ELSE Done(p, WrappingAdd(p.pc, i.offset))
    ELSE Done(p, pc)

ExecuteAlu(i, p, pc, checks) ==
    LET a == Index(p, i.rs1)
        b == IF "rs2" \in DOMAIN i THEN Index(p, i.rs2) ELSE i.imm
        value ==
            CASE i.op \in {"ADDI", "ADD"} -> WrappingAdd(a, b)
              [] i.op = "SUB" -> WrappingSub(a, b)
              [] i.op \in {"SLTI", "SLT"} -> BoolInto(a < b)
              [] i.op \in {"SLTIU", "SLTU"} -> BoolInto(UnsignedLess(a, b))
              [] i.op \in {"XORI", "XOR"} -> BitXor(a, b)
              [] i.op \in {"ORI", "OR"} -> BitOr(a, b)
              [] i.op \in {"ANDI", "AND"} -> BitAnd(a, b)
              [] i.op = "SLL" -> Shl32(a, BitAnd(b, SHIFT_MASK))
              [] i.op = "SRL" -> LShr32(a, BitAnd(b, SHIFT_MASK))
              [] i.op = "SRA" -> AShr32(a, BitAnd(b, SHIFT_MASK))
    IN  Done(IndexMutAssign(p, i.rd, value), pc)

Execute(i, p, checks) ==
    IF checks /\ AddOverflows(p.pc, 4) THEN Panic(p)
    ELSE
    LET pc == WrappingAdd(p.pc, 4)
    IN  CASE i.op = "LUI" -> Done(IndexMutAssign(p, i.rd, Shl32(i.imm, 12)), pc)
          [] i.op = "AUIPC" ->
                IF checks /\ AddOverflows(p.pc, Shl32(i.imm, 12)) THEN Panic(p)
                ELSE Done(IndexMutAssign(p, i.rd,
                                         WrappingAdd(p.pc, Shl32(i.imm, 12))), pc)
          [] i.op \in {"SLLI", "SRLI", "SRAI"} -> ExecuteShiftImm(i, p, pc, checks)
          [] i.op \in {"CSRRW", "CSRRS", "CSRRC", "CSRRWI", "CSRRSI", "CSRRCI"} ->
                ExecuteCsr(i, p, pc)
          [] i.op \in {"LB", "LH", "LW", "LBU", "LHU"} -> ExecuteLoad(i, p, pc)
          [] i.op \in {"SB", "SH", "SW"} -> ExecuteStore(i, p, pc)
          [] i.op = "JAL" -> ExecuteJal(i, p, pc, checks)
          [] i.op = "JALR" -> ExecuteJalr(i, p, pc, checks)
          [] i.op \in {"BEQ", "BNE", "BLT", "BGE", "BLTU", "BGEU"} ->
                ExecuteBranch(i, p, pc, checks)
          [] OTHER -> ExecuteAlu(i, p, pc, checks)

(***************************************************************************)
(* The state                                                               *)
(***************************************************************************)
VARIABLES
    pc,               \* Processor.pc
    registers,        \* Processor.registers (registers[0] is ZeroRegister.zero)
    zero_scratch,     \* ZeroRegister._zero
    csrs,             \* Processor.csrs
    memory,           \* Processor.memory.data
    overflow_checks,  \* the crate is built with overflow checks
    program,          \* the instructions handed to the last run of execute
    executed,         \* how many of them were executed (the failing one included)
    result,           \* what the last execute returned
    start,            \* the processor before the first instruction of program
    prev,             \* the processor immediately before the last executed one
    steps,            \* number of runs so far
    stage,            \* position of the codec pipeline
    word,             \* the word given to decode
    inst,             \* the instruction under consideration
    enc,              \* the result of encode
    res,              \* the result of decode
    state,            \* Ready, Running or Halted: the processor's run state
    mode,             \* "idle", or "in_run" while run() is looping
    trace,            \* the pcs of the instructions step() has executed
    iterator,         \* a PseudoinstructionMappingIter: the instructions it holds
    source,           \* the instructions it was constructed with
    front,            \* the instructions next() has yielded, in order
    back,             \* the instructions next_back() has yielded, in order
    returned,         \* what the last call returned: an instruction or None
    before            \* the iterator before the last call

procVars == <<pc, registers, zero_scratch, csrs, memory>>

histVars == <<program, executed, result, start, prev, steps>>

codecVars == <<stage, word, inst, enc, res>>

runVars == <<state, mode, trace>>

iterVars == <<iterator, source, front, back, returned, before>>

vars == <<procVars, overflow_checks, histVars, codecVars, runVars, iterVars>>

Processor ==
    [pc |-> pc, registers |-> registers, zero_scratch |-> zero_scratch,
     csrs |-> csrs, memory |-> memory]

SetProcessor(p) ==
    /\ pc' = p.pc
    /\ registers' = p.registers
    /\ zero_scratch' = p.zero_scratch
    /\ csrs' = p.csrs
    /\ memory' = p.memory

NoInstruction == [op |-> "none"]

LastInstruction == IF executed = 0 THEN NoInstruction ELSE program[executed]

(***************************************************************************)
(* Bounds of the model                                                     *)
(***************************************************************************)
MaxSteps == 2

MaxJumpSteps == 1

MaxCsrSteps == 1

MaxAddress == 15

(***************************************************************************)
(* Running instructions against the processor, as the callers of execute   *)
(* do: the instructions of one expansion in order, stopping at the first   *)
(* one that does not return Ok (src/src/test/macros.rs:146-172).           *)
(***************************************************************************)
IsMemoryOp(i) == i.op \in {"LB", "LH", "LW", "LBU", "LHU", "SB", "SH", "SW"}

\* the model holds the bytes 0 .. MaxAddress + 3 of the memory only
AddressModelled(i, p) ==
    IsMemoryOp(i) => Address(p, i) >= 0 /\ Address(p, i) <= MaxAddress

RECURSIVE TryForEach(_, _, _, _)
TryForEach(seq, n, p, checks) ==
    IF ~AddressModelled(seq[n], p)
    THEN [result |-> "unmodelled", p |-> p, prev |-> p, executed |-> n]
    ELSE LET r == Execute(seq[n], p, checks)
         IN  IF r.result = "Ok" /\ n < Len(seq)
             THEN TryForEach(seq, n + 1, r.p, checks)
             ELSE [result |-> r.result, p |-> r.p, prev |-> p, executed |-> n]

\* execute the instructions of seq against the processor
TestExecute(seq, limit) ==
    /\ steps < limit
    /\ result # "panic"
    /\ LET r == TryForEach(seq, 1, Processor, overflow_checks)
       IN  /\ r.result # "unmodelled"
           /\ SetProcessor(r.p)
           /\ program' = seq
           /\ executed' = r.executed
           /\ result' = r.result
           /\ start' = Processor
           /\ prev' = r.prev
    /\ steps' = steps + 1
    /\ UNCHANGED <<overflow_checks, codecVars, iterVars, runVars>>

\* registers[r] = value, written through IndexMut by the owner of the
\* register file (src/src/registers.rs:843-848)
WriteRegister(r, value) ==
    /\ steps < MaxSteps
    /\ result # "panic"
    /\ SetProcessor(IndexMutAssign(Processor, r, value))
    /\ program' = <<>>
    /\ executed' = 0
    /\ result' = "none"
    /\ start' = Processor
    /\ prev' = Processor
    /\ steps' = steps + 1
    /\ UNCHANGED <<overflow_checks, codecVars, iterVars, runVars>>

(***************************************************************************)
(* Initial states                                                          *)
(***************************************************************************)
InitHistory ==
    /\ program = <<>>
    /\ executed = 0
    /\ result = "none"
    /\ steps = 0
    /\ state = "Ready"
    /\ mode = "idle"
    /\ trace = <<>>

InitCodec ==
    /\ stage = "idle"
    /\ word = 0
    /\ inst = NoInstruction
    /\ enc = 0
    /\ res = [ok |-> FALSE, exception |-> "none", word |-> 0]
    /\ iterator = <<>>
    /\ source = <<>>
    /\ front = <<>>
    /\ back = <<>>
    /\ returned = NoInstruction
    /\ before = <<>>

\* Processor::default()
Init ==
    /\ pc = ProcessorDefault.pc
    /\ registers = ProcessorDefault.registers
    /\ zero_scratch = ProcessorDefault.zero_scratch
    /\ csrs = ProcessorDefault.csrs
    /\ memory = ProcessorDefault.memory
    /\ overflow_checks \in BOOLEAN
    /\ start = ProcessorDefault
    /\ prev = ProcessorDefault
    /\ InitHistory
    /\ InitCodec

\* processor_state! { registers: {ra: .., a0: ..}, csr: {20: ..}, pc: .. }
\* (src/src/test/macros.rs:101-133)
ProcessorState(ra, a0, csr20, counter) ==
    [ProcessorDefault EXCEPT
        !.registers = [RegistersDefault EXCEPT ![RA] = ra, ![A0] = a0],
        !.csrs = CsrReadWrite(CsrNew, 20, csr20).bank,
        !.pc = counter]

InitArranged(ras, a0s, csr20s, counters) ==
    /\ \E ra \in ras, a0 \in a0s, csr20 \in csr20s, counter \in counters :
          /\ pc = counter
          /\ registers = ProcessorState(ra, a0, csr20, counter).registers
          /\ csrs = ProcessorState(ra, a0, csr20, counter).csrs
          /\ start = ProcessorState(ra, a0, csr20, counter)
          /\ prev = ProcessorState(ra, a0, csr20, counter)
    /\ zero_scratch = 0
    /\ memory = <<>>
    /\ overflow_checks \in BOOLEAN
    /\ InitHistory
    /\ InitCodec

(***************************************************************************)
(* The general specification: any instructions and register writes from    *)
(* the zeroed processor                                                    *)
(***************************************************************************)
GeneralInstructions ==
    [op : {"ADDI"}, rd : {ZERO, A0}, rs1 : {ZERO, A0}, imm : {21, -1}]
    \cup [op : {"LUI", "AUIPC"}, rd : {ZERO, A0}, imm : {524287}]
    \cup [op : {"SLLI", "SRAI"}, rd : {ZERO, A0}, rs1 : {A0}, shamt : {1, 32}]
    \cup [op : {"ADD"}, rd : {ZERO, A0}, rs1 : {A0}, rs2 : {A0}]
    \cup [op : {"CSRRS", "CSRRW"}, rd : {ZERO}, rs1 : {A0}, csr : {20}]
    \cup [op : {"LW"}, rd : {ZERO, A0}, rs1 : {ZERO}, offset : {4}]
    \cup [op : {"SW"}, rs1 : {ZERO}, rs2 : {A0}, offset : {4}]
    \cup [op : {"JAL"}, rd : {ZERO, RA}, offset : {8, -42}]
    \cup [op : {"JALR"}, rd : {ZERO}, rs1 : {A0}, offset : {0}]
    \cup [op : {"BEQ"}, rs1 : {ZERO}, rs2 : {ZERO}, offset : {8}]

GeneralPrograms ==
    {<<i>> : i \in GeneralInstructions}
    \cup {LI(A0, MaxI32 - 3), LI(ZERO, 305419896), CALL(4099)}

ExecuteProgram == \E seq \in GeneralPrograms : TestExecute(seq, MaxSteps)

WriteAnyRegister ==
    \E r \in {ZERO, A0}, value \in {42, MaxI32 - 3} : WriteRegister(r, value)

Next == ExecuteProgram \/ WriteAnyRegister

Spec == Init /\ [][Next]_vars

(***************************************************************************)
(* C4, C5: the zero register and the absence of panics                     *)
(***************************************************************************)
\* C4: register 0 reads as 0 in every reachable state, whatever instructions
\* with rd = ZERO were executed and whatever was written through index 0.
C4_ZeroRegisterReadsZero == Index(Processor, ZERO) = 0

\* an instruction with rd = ZERO has written a non-zero value
C4_Witness ==
    /\ result = "Ok"
    /\ LastInstruction.op = "ADDI"
    /\ LastInstruction.rd = ZERO
    /\ zero_scratch # 0

\* C5: execute never panics: no run of execute ends in an arithmetic
\* overflow or shift-range failure.
C5_ExecuteNeverPanics == result # "panic"

(***************************************************************************)
(* The jump specification: jumps, branches, CALL and TAIL from arranged    *)
(* processor states                                                        *)
(***************************************************************************)
BranchOps == {"BEQ", "BNE", "BLT", "BGE", "BLTU", "BGEU"}

JumpInstructions ==
    [op : {"JAL"}, rd : {ZERO, RA}, offset : {-42, 2, 4, 84}]
    \cup [op : {"JALR"}, rd : {ZERO, RA}, rs1 : {RA, A0}, offset : {-42, 0, 3}]
    \cup [op : BranchOps, rs1 : {ZERO, A0}, rs2 : {ZERO, A0},
          offset : {-42, 2, 4, 6}]

JumpPrograms ==
    {<<i>> : i \in JumpInstructions}
    \cup {CALL(8), CALL(4099), TAIL(8), TAIL(4099)}

InitJump == InitArranged({0, 84}, {42, 85}, {0}, {0, 2, 84})

ExecuteJump == \E seq \in JumpPrograms : TestExecute(seq, MaxJumpSteps)

NextJump == ExecuteJump

SpecJump == InitJump /\ [][NextJump]_vars

IsJump(i) == i.op \in {"JAL", "JALR"}

\* C6 (as the spec states it): a misaligned JAL or JALR returns the exception
\* with rd already holding old pc + 4.
C6_LinkWrittenBeforeValidation ==
    (/\ IsJump(LastInstruction)
     /\ result = "MisalignedInstructionFetch"
     /\ LastInstruction.rd # ZERO)
        => registers[LastInstruction.rd] = WrappingAdd(prev.pc, 4)

\* C6 (amended): JAL and JALR validate the target before writing rd: a
\* misaligned target returns the exception with rd still holding its previous
\* value, and old pc + 4 is written to rd only when the target is aligned.
C6_LinkWrittenAfterValidation ==
    IsJump(LastInstruction) =>
        /\ result = "MisalignedInstructionFetch" =>
               Index(Processor, LastInstruction.rd)
                   = Index(prev, LastInstruction.rd)
        /\ (result = "Ok" /\ LastInstruction.rd # ZERO) =>
               /\ registers[LastInstruction.rd] = WrappingAdd(prev.pc, 4)
               /\ pc % 4 = 0

\* JAL {rd: RA, offset: -42} at pc = 84 has failed
C6_Witness ==
    /\ program = <<[op |-> "JAL", rd |-> RA, offset |-> -42]>>
    /\ prev.pc = 84
    /\ result = "MisalignedInstructionFetch"
    /\ registers[RA] # 88

\* C7: when execute returns MisalignedInstructionFetch the whole processor
\* equals the processor before that instruction; in a two-instruction
\* expansion only the effects of the first instruction remain.
C7_MisalignedFetchLeavesState ==
    result = "MisalignedInstructionFetch" =>
        /\ Processor = prev
        /\ executed = 1 => Processor = start
        /\ executed = 2 =>
               Processor = Execute(program[1], start, overflow_checks).p

\* the JALR of a CALL has failed after its AUIPC changed RA
C7_Witness ==
    /\ program = CALL(4099)
    /\ executed = 2
    /\ result = "MisalignedInstructionFetch"
    /\ registers[RA] # start.registers[RA]

\* C8: for every pc and every taken branch, the exception is returned exactly
\* when pc + offset is not a multiple of 4 and otherwise pc becomes
\* pc + offset, so every committed branch target is a multiple of 4.
C8_BranchChecksTarget ==
    (/\ LastInstruction.op \in BranchOps
     /\ result # "panic"
     /\ BranchCondition(LastInstruction, prev))
        => LET target == WrappingAdd(prev.pc, LastInstruction.offset)
           IN  /\ result = "MisalignedInstructionFetch" <=> Rem(target, 4) # 0
               /\ result = "Ok" => pc = target /\ Rem(pc, 4) = 0

\* C8, for the jumps: a target committed by JAL or JALR is a multiple of 4
C8_JumpTargetsAligned ==
    (IsJump(LastInstruction) /\ result = "Ok") => Rem(pc, 4) = 0

(***************************************************************************)
(* The CSR specification                                                   *)
(***************************************************************************)
CsrInstructions ==
    [op : {"CSRRW", "CSRRS", "CSRRC"}, rd : {ZERO, RA, A0}, rs1 : {ZERO, A0},
     csr : {20, 21}]
    \cup [op : {"CSRRWI", "CSRRSI", "CSRRCI"}, rd : {ZERO, A0},
          imm : {0, 19, 31}, csr : {20}]

CsrPrograms ==
    {<<i>> : i \in CsrInstructions} \cup {CSRR(A0, 20), CSRW(A0, 21)}

InitCsr == InitArranged({0}, {0, 10, -2}, {0, 12, -1}, {0})

ExecuteCsrProgram == \E seq \in CsrPrograms : TestExecute(seq, MaxCsrSteps)

NextCsr == ExecuteCsrProgram

SpecCsr == InitCsr /\ [][NextCsr]_vars

\* C9: CSRRW writes the old CSR value to rd and then sets the CSR to the value
\* of rs1, for every rs1 including ZERO (the CSR becomes 0); with rd = ZERO
\* only the CSR is written and no register changes.
C9_CsrrwWritesForEveryRs1 ==
    (LastInstruction.op = "CSRRW" /\ result = "Ok") =>
        /\ CsrCell(csrs, LastInstruction.csr) = Index(prev, LastInstruction.rs1)
        /\ LastInstruction.rd # ZERO =>
               registers[LastInstruction.rd]
                   = CsrCell(prev.csrs, LastInstruction.csr)
        /\ LastInstruction.rd = ZERO => registers = prev.registers

IsCsrSet(i) == i.op \in {"CSRRS", "CSRRSI"}

IsCsrClear(i) == i.op \in {"CSRRC", "CSRRCI"}

\* C10: CSRRS, CSRRC, CSRRSI and CSRRCI write the old CSR value to rd and set
\* the CSR to old | src, respectively old & ~src, bit by bit, where src is the
\* value rs1 held before the instruction (or the immediate), also when
\* rd = rs1.
C10_CsrSetClearUsePriorSource ==
    ((IsCsrSet(LastInstruction) \/ IsCsrClear(LastInstruction)) /\ result = "Ok")
        => LET i == LastInstruction
               old == CsrCell(prev.csrs, i.csr)
               new == CsrCell(csrs, i.csr)
               src == IF i.op \in {"CSRRS", "CSRRC"}
                      THEN Index(prev, i.rs1) ELSE i.imm
           IN  /\ i.rd # ZERO => registers[i.rd] = old
               /\ \A k \in 0 .. 31 :
                      Bit(new, k) = 1 <=>
                          IF IsCsrSet(i)
                          THEN Bit(old, k) = 1 \/ Bit(src, k) = 1
                          ELSE Bit(old, k) = 1 /\ Bit(src, k) = 0

\* CSRRS with rd = rs1 has run on a non-zero register and a different CSR
C10_Witness ==
    /\ result = "Ok"
    /\ LastInstruction.op = "CSRRS"
    /\ LastInstruction.rd = A0
    /\ LastInstruction.rs1 = A0
    /\ prev.registers[A0] = 10
    /\ CsrCell(prev.csrs, LastInstruction.csr) = 12
    /\ CsrCell(csrs, LastInstruction.csr) = 14
    /\ registers[A0] = 12

(***************************************************************************)
(* The codec specification: words are decoded, instructions are encoded    *)
(* and the result is decoded again                                         *)
(***************************************************************************)
Word(funct7, rs2, rs1, funct3, rd, opcode) ==
    Shl32(funct7, 25) + rs2 * Pow2(20) + rs1 * Pow2(15) + funct3 * Pow2(12)
        + rd * Pow2(7) + opcode

\* the ten opcodes decode knows, and three it does not
Opcodes == {55, 23, 19, 51, 3, 35, 115, 111, 99, 103, 0, 15, 127}

Words ==
    {Word(funct7, rs2, rs1, funct3, rd, opcode) :
        funct7 \in {0, 1, 2, 32, 33, 64, 127}, rs2 \in {0, 1, 31},
        rs1 \in {0, 10}, funct3 \in 0 .. 7, rd \in {0, 31}, opcode \in Opcodes}

Expansions ==
    {LI(A0, imm) : imm \in {0, -1, 2047, -2048, 2048, -2049, -5000,
                            305419896, MaxI32, MinI32}}
    \cup {CALL(address) : address \in {8, 2048, 4099, 50000003, -4}}
    \cup {TAIL(address) : address \in {8, 2048, 4099, 50000003, -4}}
    \cup {CSRR(A0, 20), CSRW(A0, 4095)}

\* Instruction::decode(word)
DecodeWord ==
    \E w \in Words :
        /\ stage = "idle"
        /\ word' = w
        /\ res' = Decode(w)
        /\ inst' = IF Decode(w).ok THEN Decode(w).instruction ELSE NoInstruction
        /\ stage' = "decoded"
        /\ UNCHANGED <<enc, procVars, overflow_checks, histVars, iterVars,
                       runVars>>

\* one instruction out of a pseudoinstruction's expansion
ExpandPseudoinstruction ==
    \E seq \in Expansions : \E k \in 1 .. Len(seq) :
        /\ stage = "idle"
        /\ inst' = seq[k]
        /\ stage' = "expanded"
        /\ UNCHANGED <<word, enc, res, procVars, overflow_checks, histVars, iterVars,
                       runVars>>

\* instruction.encode()
EncodeInstruction ==
    /\ \/ stage = "decoded" /\ res.ok
       \/ stage = "expanded"
    /\ enc' = Encode(inst)
    /\ stage' = IF stage = "decoded" THEN "decoded_encoded"
                ELSE "expanded_encoded"
    /\ UNCHANGED <<word, inst, res, procVars, overflow_checks, histVars, iterVars,
                       runVars>>

\* Instruction::decode(instruction.encode())
DecodeEncoded ==
    /\ stage \in {"decoded_encoded", "expanded_encoded"}
    /\ res' = Decode(enc)
    /\ stage' = IF stage = "decoded_encoded" THEN "decoded_redecoded"
                ELSE "expanded_redecoded"
    /\ UNCHANGED <<word, inst, enc, procVars, overflow_checks, histVars, iterVars,
                       runVars>>

NextCodec ==
    DecodeWord \/ ExpandPseudoinstruction \/ EncodeInstruction \/ DecodeEncoded

SpecCodec == Init /\ [][NextCodec]_vars

\* C1: for every word w that decode accepts, encoding the decoded instruction
\* gives back w bit for bit.
C1_EncodeAfterDecodeIsIdentity == stage = "decoded_encoded" => enc = word

\* C2: for every instruction returned by decode or emitted by the expander,
\* decoding its encoding returns that instruction.
C2_DecodeAfterEncodeIsIdentity ==
    stage \in {"decoded_redecoded", "expanded_redecoded"} => res = Ok(inst)

\* the (opcode, funct3, funct7/funct6) combinations of the RV32I table, the
\* shift immediates read with funct6
InTable(w) ==
    LET opcode == Field(w, 0, 7)
        funct3 == Field(w, 12, 3)
        funct7 == Field(w, 25, 7)
        funct6 == Field(w, 26, 6)
    IN  \/ opcode \in {55, 23, 111}
        \/ opcode = 103 /\ funct3 = 0
        \/ opcode = 99 /\ funct3 \in {0, 1, 4, 5, 6, 7}
        \/ opcode = 3 /\ funct3 \in {0, 1, 2, 4, 5}
        \/ opcode = 35 /\ funct3 \in {0, 1, 2}
        \/ opcode = 19 /\ funct3 \in {0, 2, 3, 4, 6, 7}
        \/ opcode = 19 /\ funct3 = 1 /\ funct6 = 0
        \/ opcode = 19 /\ funct3 = 5 /\ funct6 \in {0, 16}
        \/ opcode = 51 /\ funct7 = 0
        \/ opcode = 51 /\ funct7 = 32 /\ funct3 \in {0, 5}
        \/ opcode = 115 /\ funct3 \in {1, 2, 3, 5, 6, 7}

\* C3: decode returns Ok or UnimplementedInstruction carrying the input word,
\* and every combination outside the RV32I table yields the error.
C3_DecodeRejectsOutsideTable ==
    stage = "decoded" =>
        /\ res.ok \/ res = UnimplementedInstruction(word)
        /\ ~InTable(word) => ~res.ok

(***************************************************************************)
(* The run specification: a program is stored in memory and the processor  *)
(* steps through it                                                        *)
(***************************************************************************)
A1 == 11

A2 == 12

MaxProgram == 3

MaxRunSteps == 6

MaxFetchAddress == 31

\* InstructionSet::instruction_size
InstructionSize(i) == 4

\* a store_instructions that does not advance the address
StoreInstructionsAtSameAddress(data, addr, instructions, n) ==
    IF instructions = <<>> THEN data
    ELSE StoreWord(data, addr, Encode(instructions[Len(instructions)]))

\* Processor::store_instructions(addr, instructions)
RECURSIVE StoreInstructionsAt(_, _, _, _)
StoreInstructionsAt(data, addr, instructions, n) ==
    IF n > Len(instructions) THEN data
    ELSE StoreInstructionsAt(
             StoreWord(data, addr, Encode(instructions[n])),
             addr + InstructionSize(instructions[n]), instructions, n + 1)

\* a step() whose exceptions from execute leave the processor Running
StepResultKeepsRunning(p, st, checks) ==
    IF st = "Halted"
    THEN [result |-> "none", p |-> p, state |-> "Halted"]
    ELSE LET fetch == LoadWord(p.memory, p.pc)
             q == [p EXCEPT !.memory = fetch.data]
             d == Decode(fetch.value)
         IN  IF ~d.ok
             THEN [result |-> d.exception, p |-> q, state |-> "Halted"]
             ELSE LET r == Execute(d.instruction, q, checks)
                  IN  [result |-> r.result, p |-> r.p,
                       state |-> IF r.result = "panic" THEN st ELSE "Running"]

\* one Processor::step() on p in run state st: fetch, decode, execute
StepResult(p, st, checks) ==
    IF st = "Halted"
    THEN [result |-> "none", p |-> p, state |-> "Halted"]
    ELSE LET fetch == LoadWord(p.memory, p.pc)
             q == [p EXCEPT !.memory = fetch.data]
             d == Decode(fetch.value)
         IN  IF ~d.ok
             THEN [result |-> d.exception, p |-> q, state |-> "Halted"]
             ELSE LET r == Execute(d.instruction, q, checks)
                  IN  CASE r.result = "Ok" ->
                               [result |-> "Ok", p |-> r.p, state |-> "Running"]
                        [] r.result = "panic" ->
                               [result |-> "panic", p |-> r.p, state |-> st]
                        [] OTHER ->
                               [result |-> r.result, p |-> r.p,
                                state |-> "Halted"]

\* the instruction step() would fetch is within the modelled memory
FetchModelled(p, st) ==
    \/ st = "Halted"
    \/ /\ p.pc >= 0
       /\ p.pc <= MaxFetchAddress
       /\ LET d == Decode(LoadWord(p.memory, p.pc).value)
          IN  d.ok => AddressModelled(d.instruction, p)

Step ==
    /\ steps < MaxRunSteps
    /\ result # "panic"
    /\ FetchModelled(Processor, state)
    /\ LET r == StepResult(Processor, state, overflow_checks)
       IN  /\ SetProcessor(r.p)
           /\ state' = r.state
           /\ result' = r.result
           /\ trace' = IF r.result = "Ok" THEN Append(trace, pc) ELSE trace
    /\ prev' = Processor
    /\ steps' = steps + 1
    /\ UNCHANGED <<overflow_checks, codecVars, iterVars, program, executed, start>>

\* processor.store_instructions(addr, instructions) on the Ready processor
StoreInstructions(addr, instructions) ==
    /\ state = "Ready"
    /\ mode = "idle"
    /\ steps = 0
    /\ program = <<>>
    /\ memory' = StoreInstructionsAt(memory, addr, instructions, 1)
    /\ program' = instructions
    /\ start' = [Processor EXCEPT !.memory = memory']
    /\ prev' = start'
    /\ UNCHANGED <<pc, registers, zero_scratch, csrs, overflow_checks,
                   executed, result, steps, codecVars, iterVars, runVars>>

\* a call of step() by the owner of the processor
CallStep == mode = "idle" /\ Step /\ UNCHANGED mode

\* run() is called
CallRun ==
    /\ mode = "idle"
    /\ steps < MaxRunSteps
    /\ result # "panic"
    /\ mode' = "in_run"
    /\ UNCHANGED <<procVars, overflow_checks, histVars, codecVars, iterVars, state,
                   trace>>

\* one iteration of run()'s loop
RunStep == mode = "in_run" /\ state # "Halted" /\ Step /\ UNCHANGED mode

\* run() returns
RunReturn ==
    /\ mode = "in_run"
    /\ state = "Halted"
    /\ mode' = "idle"
    /\ UNCHANGED <<procVars, overflow_checks, histVars, codecVars, iterVars, state,
                   trace>>

StraightLineInstructions ==
    [op : {"ADDI"}, rd : {A0, A1}, rs1 : {ZERO}, imm : {21}]
    \cup [op : {"ADD"}, rd : {A2}, rs1 : {A1}, rs2 : {A0}]
    \cup [op : {"LUI"}, rd : {A0}, imm : {-1}]

RunInstructions ==
    StraightLineInstructions
    \cup [op : {"JAL"}, rd : {RA}, offset : {2, 8, -4}]

RECURSIVE SeqsUpTo(_, _)
SeqsUpTo(S, n) ==
    IF n = 0 THEN {<<>>}
    ELSE SeqsUpTo(S, n - 1)
         \cup {Append(seq, i) : seq \in SeqsUpTo(S, n - 1), i \in S}

RunPrograms == SeqsUpTo(RunInstructions, MaxProgram) \ {<<>>}

LoadProgram ==
    \E addr \in {0, 4}, instructions \in RunPrograms :
        StoreInstructions(addr, instructions)

NextRun == LoadProgram \/ CallStep \/ CallRun \/ RunStep \/ RunReturn

SpecRun == Init /\ [][NextRun]_vars

Exceptions == {"UnimplementedInstruction", "MisalignedInstructionFetch"}

IsStraightLine(instructions) ==
    \A k \in 1 .. Len(instructions) :
        instructions[k] \in StraightLineInstructions

ExampleProgram ==
    <<[op |-> "ADDI", rd |-> A0, rs1 |-> ZERO, imm |-> 21],
      [op |-> "ADDI", rd |-> A1, rs1 |-> ZERO, imm |-> 21],
      [op |-> "ADD", rd |-> A2, rs1 |-> A1, rs2 |-> A0]>>

\* C12: a program of n straight-line instructions stored at address 0 and run
\* from the Ready processor executes each instruction once, in order, and
\* halts with pc = 4n at the first word that fails to decode; the registers
\* are those the instructions produce in sequence, and the example program
\* ends with a0 = 21, a1 = 21, a2 = 42, pc = 12.
C12_StraightLineProgramRuns ==
    (/\ state = "Halted"
     /\ program # <<>>
     /\ IsStraightLine(program)
     /\ start.memory = StoreInstructionsAt(<<>>, 0, program, 1))
        => /\ pc = 4 * Len(program)
           /\ trace = [k \in 1 .. Len(program) |-> 4 * (k - 1)]
           /\ registers =
                  TryForEach(program, 1, ProcessorDefault, FALSE).p.registers
           /\ program = ExampleProgram =>
                  /\ registers[A0] = 21
                  /\ registers[A1] = 21
                  /\ registers[A2] = 42
                  /\ pc = 12

\* run() has returned from the example program
C12_Witness ==
    /\ state = "Halted"
    /\ mode = "idle"
    /\ program = ExampleProgram
    /\ start.memory = StoreInstructionsAt(<<>>, 0, program, 1)
    /\ trace = <<0, 4, 8>>
    /\ registers[A2] = 42
    /\ Len(memory) = 16

(***************************************************************************)
(* The ALU specification: shifts and additions on arranged registers       *)
(***************************************************************************)
MaxAluSteps == 1

ShiftOps == {"SLL", "SRL", "SRA", "SLLI", "SRLI", "SRAI"}

AluInstructions ==
    [op : {"SLL", "SRL", "SRA", "ADD", "SUB"}, rd : {A0, T1}, rs1 : {A0},
     rs2 : {RA}]
    \cup [op : {"SLLI", "SRLI", "SRAI"}, rd : {A0, T1}, rs1 : {A0},
          shamt : {0, 1, 31, 32, 63}]
    \cup [op : {"ADDI"}, rd : {A0, T1}, rs1 : {A0}, imm : {1, -1, 2047, -2048}]

AluPrograms == {<<i>> : i \in AluInstructions}

InitAlu ==
    InitArranged({0, 1, 31, 32, 33, -1, MaxI32, MinI32},
                 {1, -8, 305419896, MaxI32, MinI32}, {0}, {0})

ExecuteAluProgram == \E seq \in AluPrograms : TestExecute(seq, MaxAluSteps)

NextAlu == ExecuteAluProgram

SpecAlu == InitAlu /\ [][NextAlu]_vars

\* the shift amount of the last instruction: shamt, or the value of rs2
ShiftAmount ==
    IF "shamt" \in DOMAIN LastInstruction THEN LastInstruction.shamt
    ELSE Index(prev, LastInstruction.rs2)

\* C13: every shift instruction shifts by its amount mod 32, for every value
\* of rs2 and every shamt: bit k of the result is bit k - n of the operand
\* for a left shift and bit k + n for a right shift, the vacated bits being
\* 0 (SLL, SRL) or copies of the sign bit (SRA).
C13_ShiftsUseLowFiveBits ==
    (LastInstruction.op \in ShiftOps /\ executed = 1) =>
        /\ result = "Ok"
        /\ LET n == ShiftAmount % 32
               x == Index(prev, LastInstruction.rs1)
               y == Index(Processor, LastInstruction.rd)
           IN  \A k \in 0 .. 31 :
                   Bit(y, k) =
                       CASE LastInstruction.op \in {"SLL", "SLLI"} ->
                                IF k >= n THEN Bit(x, k - n) ELSE 0
                         [] LastInstruction.op \in {"SRL", "SRLI"} ->
                                IF k + n <= 31 THEN Bit(x, k + n) ELSE 0
                         [] LastInstruction.op \in {"SRA", "SRAI"} ->
                                IF k + n <= 31 THEN Bit(x, k + n)
                                ELSE Bit(x, 31)

\* C13, for the register shifts alone: SLL, SRL and SRA shift by the low five
\* bits of rs2
C13_RegisterShiftsUseLowFiveBits ==
    LastInstruction.op \in {"SLL", "SRL", "SRA"} => C13_ShiftsUseLowFiveBits

Lo16(x) == x % 65536

Hi16(x) == (x \div 65536) % 65536

\* C14: ADD, SUB and ADDI return Ok and write (a + b) mod 2^32, respectively
\* (a - b) mod 2^32, as a signed 32-bit value: the low and the high half of
\* the result are those of the sum with the carry (borrow) between them.
C14_AddSubWrap ==
    (LastInstruction.op \in {"ADD", "SUB", "ADDI"} /\ executed = 1) =>
        /\ result = "Ok"
        /\ LET a == Index(prev, LastInstruction.rs1)
               b == IF LastInstruction.op = "ADDI" THEN LastInstruction.imm
                    ELSE Index(prev, LastInstruction.rs2)
               y == Index(Processor, LastInstruction.rd)
               lo == IF LastInstruction.op = "SUB" THEN Lo16(a) - Lo16(b)
                     ELSE Lo16(a) + Lo16(b)
               carry == lo \div 65536
               hi == IF LastInstruction.op = "SUB"
                     THEN Hi16(a) - Hi16(b) + carry
                     ELSE Hi16(a) + Hi16(b) + carry
           IN  /\ y \in I32
               /\ Lo16(y) = lo % 65536
               /\ Hi16(y) = hi % 65536

\* ADD of i32::MAX and 1 has produced i32::MIN
C14_Witness ==
    /\ result = "Ok"
    /\ LastInstruction = [op |-> "ADD", rd |-> T1, rs1 |-> A0, rs2 |-> RA]
    /\ prev.registers[A0] = MaxI32
    /\ prev.registers[RA] = 1
    /\ registers[T1] = MinI32

(***************************************************************************)
(* Loads and stores executed on a processor with arranged registers and    *)
(* memory, as test_execute! does with memory: {location: value}            *)
(* (src/src/instructions/impl_instruction_set.rs:868-917).                 *)
(***************************************************************************)
MaxLoadStoreSteps == 1

\* memory_state! { location: value, .. } (src/src/test/macros.rs:49-62)
MemoryState(stores) ==
    IF Len(stores) = 0 THEN <<>>
    ELSE IF Len(stores) = 1 THEN StoreWord(<<>>, stores[1][1], stores[1][2])
    ELSE StoreWord(StoreWord(<<>>, stores[1][1], stores[1][2]),
                   stores[2][1], stores[2][2])

LoadStoreMemories ==
    {MemoryState(<<>>),
     MemoryState(<< <<0, 305419896>> >>),
     MemoryState(<< <<0, 2139160449>>, <<4, MinI32 + 32896>> >>)}

LoadOps == {"LB", "LH", "LW", "LBU", "LHU"}

StoreOps == {"SB", "SH", "SW"}

LoadStoreOffsets == {0, 1, 3, -1, I12_MAX, I12_MIN}

LoadStoreInstructions ==
    {[op |-> o, rd |-> A0, rs1 |-> RA, offset |-> f] :
        o \in LoadOps, f \in LoadStoreOffsets}
    \cup
    {[op |-> o, rs1 |-> RA, rs2 |-> A0, offset |-> f] :
        o \in StoreOps, f \in LoadStoreOffsets}

LoadStorePrograms == {<<i>> : i \in LoadStoreInstructions}

InitLoadStore ==
    /\ \E ra \in {0, 1, 4, 12, -1, -2040, 2050},
          a0 \in {-1, 305419896, 32897},
          m \in LoadStoreMemories :
          LET p == [ProcessorState(ra, a0, 0, 0) EXCEPT !.memory = m]
          IN  /\ pc = p.pc
              /\ registers = p.registers
              /\ csrs = p.csrs
              /\ memory = p.memory
              /\ start = p
              /\ prev = p
    /\ zero_scratch = 0
    /\ overflow_checks \in BOOLEAN
    /\ InitHistory
    /\ InitCodec

ExecuteLoadStoreProgram ==
    \E seq \in LoadStorePrograms : TestExecute(seq, MaxLoadStoreSteps)

NextLoadStore == ExecuteLoadStoreProgram

SpecLoadStore == InitLoadStore /\ [][NextLoadStore]_vars

\* byte k of a memory, bytes beyond its end reading as zero
ByteOf(data, k) == IF k < Len(data) THEN data[k + 1] ELSE 0

\* the number of bytes a load or store accesses
AccessWidth(op) ==
    IF op \in {"LB", "LBU", "SB"} THEN 1
    ELSE IF op \in {"LH", "LHU", "SH"} THEN 2
    ELSE 4

\* C15: a load or store accesses the address rs1 + offset (the sum taken
\* mod 2^32 as unsigned; a sum in 0 .. MaxAddress is its own residue):
\* LB and LH leave in rd the byte or half at that address sign-extended,
\* LBU and LHU the same bits zero-extended, LW the word, and a store puts
\* the low bytes of rs2 at that address and changes no other byte.
C15_LoadStoreAddressAndExtension ==
    (executed = 1 /\ LastInstruction.op \in LoadOps \cup StoreOps) =>
        LET i == LastInstruction
            a == Index(prev, i.rs1) + i.offset
            b0 == ByteOf(prev.memory, a)
            b1 == ByteOf(prev.memory, a + 1)
            b2 == ByteOf(prev.memory, a + 2)
            b3 == ByteOf(prev.memory, a + 3)
            half == b0 + 256 * b1
        IN  /\ result = "Ok"
            /\ a \in 0 .. MaxAddress
            /\ i.op = "LB" =>
                 Index(Processor, i.rd) = (IF b0 >= 128 THEN b0 - 256 ELSE b0)
            /\ i.op = "LBU" =>
                 Index(Processor, i.rd) = b0 /\ b0 \in 0 .. 255
            /\ i.op = "LH" =>
                 Index(Processor, i.rd) =
                     (IF half >= 32768 THEN half - 65536 ELSE half)
            /\ i.op = "LHU" =>
                 Index(Processor, i.rd) = half /\ half \in 0 .. 65535
            /\ i.op = "LW" =>
                 Index(Processor, i.rd) =
                     half + 65536 * b2
                     + 16777216 * (IF b3 >= 128 THEN b3 - 256 ELSE b3)
            /\ i.op \in StoreOps =>
                 /\ Len(memory) >= a + AccessWidth(i.op)
                 /\ \A k \in 0 .. Len(memory) - 1 :
                        ByteOf(memory, k) =
                            IF k >= a /\ k < a + AccessWidth(i.op)
                            THEN (Index(prev, i.rs2) \div Pow2(8 * (k - a))) % 256
                            ELSE ByteOf(prev.memory, k)

C15_Witness ==
    /\ executed = 1
    /\ result = "Ok"
    /\ LastInstruction.op = "LB"
    /\ LastInstruction.offset = I12_MIN
    /\ Index(Processor, LastInstruction.rd) = -128

(***************************************************************************)
(* The operations of Memory called directly on Memory::default(), as the   *)
(* tests of src/src/memory.rs do (lines 86-135).  program is the log of    *)
(* the calls made, each with its location and the value stored or loaded.  *)
(***************************************************************************)
MaxMemorySteps == 2

MemoryLocations == {0, 1, 2, 5}

MemoryStoreCalls ==
    {[op |-> "store_byte", location |-> l, value |-> v] :
        l \in MemoryLocations, v \in {-1, 120}}
    \cup
    {[op |-> "store_half", location |-> l, value |-> v] :
        l \in MemoryLocations, v \in {-32768, 22136}}
    \cup
    {[op |-> "store_word", location |-> l, value |-> v] :
        l \in MemoryLocations, v \in {305419896, MinI32 + 32896}}

MemoryLoadOps == {"load_byte", "load_half", "load_word"}

\* memory.store_byte / store_half / store_word (location, value)
MemoryStore ==
    \E c \in MemoryStoreCalls :
        /\ steps < MaxMemorySteps
        /\ memory' = CASE c.op = "store_byte" ->
                            StoreByte(memory, c.location, c.value)
                       [] c.op = "store_half" ->
                            StoreHalf(memory, c.location, c.value)
                       [] c.op = "store_word" ->
                            StoreWord(memory, c.location, c.value)
        /\ program' = Append(program, c)
        /\ executed' = Len(program) + 1
        /\ result' = "Ok"
        /\ prev' = Processor
        /\ steps' = steps + 1
        /\ UNCHANGED <<pc, registers, zero_scratch, csrs, overflow_checks,
                       start, codecVars, iterVars, runVars>>

\* memory.load_byte / load_half / load_word (location)
MemoryLoad ==
    \E o \in MemoryLoadOps, l \in MemoryLocations :
        LET r == CASE o = "load_byte" -> LoadByte(memory, l)
                   [] o = "load_half" -> LoadHalf(memory, l)
                   [] o = "load_word" -> LoadWord(memory, l)
        IN  /\ steps < MaxMemorySteps
            /\ memory' = r.data
            /\ program' = Append(program,
                                 [op |-> o, location |-> l, value |-> r.value])
            /\ executed' = Len(program) + 1
            /\ result' = "Ok"
            /\ prev' = Processor
            /\ steps' = steps + 1
            /\ UNCHANGED <<pc, registers, zero_scratch, csrs, overflow_checks,
                           start, codecVars, iterVars, runVars>>

NextMemory == MemoryStore \/ MemoryLoad

SpecMemory == Init /\ [][NextMemory]_vars

\* the number of bytes a call of Memory accesses
CallWidth(c) ==
    IF c.op \in {"load_byte", "store_byte"} THEN 1
    ELSE IF c.op \in {"load_half", "store_half"} THEN 2
    ELSE 4

IsStoreCall(c) == c.op \in {"store_byte", "store_half", "store_word"}

\* the bits shift .. shift + width - 1 of v, read as a signed number
SignedBits(v, shift, width) ==
    LET u == (v \div Pow2(shift)) % Pow2(width)
    IN  IF u >= Pow2(width - 1) THEN u - Pow2(width) ELSE u

\* call k of the log is a store whose bytes no later call has stored into
StoreStands(k) ==
    /\ IsStoreCall(program[k])
    /\ \A j \in (k + 1) .. Len(program) :
           IsStoreCall(program[j]) =>
               \/ program[j].location + CallWidth(program[j])
                      <= program[k].location
               \/ program[k].location + CallWidth(program[k])
                      <= program[j].location

\* C16: the memory is little-endian and consistent across widths: while no
\* later call stores into the bytes of store_word(a, v), load_word(a) is v,
\* load_half(a) and load_half(a + 2) are its low and high 16 bits and
\* load_byte(a + k) is its byte k; likewise store_half with load_half and
\* load_byte, and store_byte with load_byte.
C16_LittleEndianAcrossWidths ==
    \A k \in 1 .. Len(program) :
        StoreStands(k) =>
            LET a == program[k].location
                v == program[k].value
                w == CallWidth(program[k])
            IN  /\ \A n \in 0 .. (w - 1) :
                       LoadByte(memory, a + n).value = SignedBits(v, 8 * n, 8)
                /\ w >= 2 => LoadHalf(memory, a).value = SignedBits(v, 0, 16)
                /\ w = 4 =>
                       /\ LoadHalf(memory, a + 2).value = SignedBits(v, 16, 16)
                       /\ LoadWord(memory, a).value = v
                /\ w = 2 => LoadHalf(memory, a).value = v
                /\ w = 1 => LoadByte(memory, a).value = v

\* a load_half of the high half of a word stored before returns its high
\* 16 bits
C16_Witness ==
    /\ Len(program) = 2
    /\ program[1] = [op |-> "store_word", location |-> 0, value |-> 305419896]
    /\ program[2] = [op |-> "load_half", location |-> 2, value |-> 4660]

\* C17: a load or store at loc with width w completes and leaves the memory
\* at least loc + w bytes long; the memory never gets shorter, the bytes
\* it grows by are zero unless the call stores into them, and a load grows
\* it as a store does.
C17_AccessGrowsZeroFilled ==
    (executed >= 1 /\ Len(program) = executed) =>
        LET c == program[executed]
        IN  /\ result = "Ok"
            /\ Len(memory) >= c.location + CallWidth(c)
            /\ Len(memory) >= Len(prev.memory)
            /\ \A n \in 0 .. (Len(memory) - 1) :
                   \/ IsStoreCall(c) /\ n >= c.location
                          /\ n < c.location + CallWidth(c)
                   \/ IF n < Len(prev.memory)
                      THEN memory[n + 1] = prev.memory[n + 1]
                      ELSE memory[n + 1] = 0
            /\ ~IsStoreCall(c) =>
                   (c.location >= Len(prev.memory) => c.value = 0)

\* a load beyond the end of a memory that holds a stored word grows it
C17_Witness ==
    /\ Len(program) = 2
    /\ program[1].op = "store_word"
    /\ program[2].op = "load_half"
    /\ program[2].location = 5
    /\ Len(prev.memory) = 4
    /\ Len(memory) = 7

(***************************************************************************)
(* The operations of ControlStatusRegisters called directly on             *)
(* CSR32::default(), as the tests of src/src/csr.rs do (lines 186-223).    *)
(* program is the log of the calls made, each with the value it returned.  *)
(***************************************************************************)
MaxCsrBankSteps == 2

CsrBankOps == {"read", "read_write", "set_bits", "clear_bits"}

CsrBankIndices == {42, CSR_SIZE - 1}

CsrBankValues == {-1, 12, MinI32 + 5}

\* csrs.read(index) / read_write(index, value) / set_bits(index, value) /
\* clear_bits(index, value); read takes no value, logged as 0
CsrCall ==
    \E o \in CsrBankOps, x \in CsrBankIndices, v \in CsrBankValues :
        LET r == CASE o = "read" -> CsrRead(csrs, x)
                   [] o = "read_write" -> CsrReadWrite(csrs, x, v)
                   [] o = "set_bits" -> CsrSetBits(csrs, x, v)
                   [] o = "clear_bits" -> CsrClearBits(csrs, x, v)
        IN  /\ steps < MaxCsrBankSteps
            /\ csrs' = r.bank
            /\ program' = Append(program,
                              [op |-> o, index |-> x,
                               value |-> IF o = "read" THEN 0 ELSE v,
                               old |-> r.old])
            /\ executed' = Len(program) + 1
            /\ result' = "Ok"
            /\ prev' = Processor
            /\ steps' = steps + 1
            /\ UNCHANGED <<pc, registers, zero_scratch, memory,
                           overflow_checks, start, codecVars, iterVars, runVars>>

NextCsrBank == CsrCall

SpecCsrBank == Init /\ [][NextCsrBank]_vars

\* C18: from the all-zero bank, every call returns the value its cell held
\* just before the call (zero when no call has written the cell), and
\* leaves in the cell: the value for read_write, for set_bits the old value
\* with the bits of the mask set, for clear_bits the old value with the
\* bits of the mask cleared, and the old value for read; the other cells
\* keep their values.
C18_CsrOperationsReturnOld ==
    (executed >= 1 /\ Len(program) = executed) =>
        LET c == program[executed]
            now == CsrCell(csrs, c.index)
        IN  /\ c.old = CsrCell(prev.csrs, c.index)
            /\ (\A k \in 1 .. (executed - 1) :
                    program[k].index # c.index \/ program[k].op = "read")
                   => c.old = 0
            /\ c.op = "read" => now = c.old
            /\ c.op = "read_write" => now = c.value
            /\ c.op = "set_bits" =>
                   \A b \in 0 .. 31 :
                       Bit(now, b) =
                           IF Bit(c.value, b) = 1 THEN 1 ELSE Bit(c.old, b)
            /\ c.op = "clear_bits" =>
                   \A b \in 0 .. 31 :
                       Bit(now, b) =
                           IF Bit(c.value, b) = 1 THEN 0 ELSE Bit(c.old, b)
            /\ \A x \in CsrBankIndices :
                   x # c.index => CsrCell(csrs, x) = CsrCell(prev.csrs, x)

\* a clear_bits after a set_bits returns the bits set and clears its mask
C18_Witness ==
    /\ Len(program) = 2
    /\ program[1] = [op |-> "set_bits", index |-> 42, value |-> -1, old |-> 0]
    /\ program[2] = [op |-> "clear_bits", index |-> 42, value |-> 12,
                     old |-> -1]
    /\ CsrCell(csrs, 42) = -13

(***************************************************************************)
(* LI(rd, imm) executed with test_execute!, as execute_li does             *)
(* (src/src/instructions/impl_instruction_set.rs:268-285).                 *)
(***************************************************************************)
MaxLiSteps == 1

LiRegisters == {ZERO, RA, T1, A0}

LiImmediates ==
    {0, -1, I12_MIN, I12_MAX, I12_MIN - 1, I12_MAX + 1, 4095, 4096, -4096,
     305419896, -305419896, MaxI32, MinI32}

LiPrograms == {LI(rd, imm) : rd \in LiRegisters, imm \in LiImmediates}

InitLi == InitArranged({0, 42}, {0, -7}, {0}, {0})

ExecuteLi == \E seq \in LiPrograms : TestExecute(seq, MaxLiSteps)

NextLi == ExecuteLi

SpecLi == InitLi /\ [][NextLi]_vars

\* C19: for every immediate, i32::MIN and i32::MAX among them, and every
\* rd but ZERO, the instructions of LI(rd, imm) executed in order leave
\* rd = imm; they are the one instruction ADDI rd, x0, imm when imm is in
\* -2048 .. 2047 and the two instructions LUI rd, ADDI rd, rd otherwise.
C19_LoadImmediate ==
    \A rd \in LiRegisters \ {ZERO}, imm \in LiImmediates :
        (steps >= 1 /\ program = LI(rd, imm)) =>
            /\ result = "Ok"
            /\ executed = Len(program)
            /\ Index(Processor, rd) = imm
            /\ IF -2048 <= imm /\ imm <= 2047
               THEN program = <<[op |-> "ADDI", rd |-> rd, rs1 |-> ZERO,
                                 imm |-> imm]>>
               ELSE /\ Len(program) = 2
                    /\ program[1].op = "LUI"
                    /\ program[1].rd = rd
                    /\ program[2].op = "ADDI"
                    /\ program[2].rd = rd
                    /\ program[2].rs1 = rd

\* LI(T1, i32::MAX) has run: its LUI left i32::MIN and its ADDI added -1
C19_Witness ==
    /\ steps >= 1
    /\ program = LI(T1, MaxI32)
    /\ result = "Ok"
    /\ program[1].imm = 524288
    /\ program[2].imm = -1
    /\ Index(Processor, T1) = MaxI32

(***************************************************************************)
(* CALL(address) and TAIL(address) executed with test_execute!, as         *)
(* execute_call and execute_tail do                                        *)
(* (src/src/instructions/impl_instruction_set.rs:1315-1343).               *)
(***************************************************************************)
MaxCallSteps == 1

CallAddresses == {50000000, 50000003, 2048, 4092, 8, -4, -5000}

CallPrograms ==
    {CALL(address) : address \in CallAddresses}
    \cup {TAIL(address) : address \in CallAddresses}

InitCall == InitArranged({0, 42}, {0}, {0}, {0, 84, 1000})

ExecuteCall == \E seq \in CallPrograms : TestExecute(seq, MaxCallSteps)

NextCall == ExecuteCall

SpecCall == InitCall /\ [][NextCall]_vars

\* the program is AUIPC rd, upper 20 bits of the address followed by
\* JALR link, rd, low 12 bits of the address
IsFarJump(address, link, rd) ==
    program = <<[op |-> "AUIPC", rd |-> rd, imm |-> address \div 4096],
                [op |-> "JALR", rd |-> link, rs1 |-> rd,
                 offset |-> address % 4096]>>

\* C20: CALL(address) is AUIPC ra, JALR ra, ra and TAIL(address) is
\* AUIPC t1, JALR x0, t1, the AUIPC carrying the upper 20 bits and the
\* JALR the low 12 bits of the address; executed at pc = p with p + address
\* a multiple of 4, both end with pc = p + address, CALL with ra = p + 8
\* and TAIL with ra unchanged.
C20_CallAndTail ==
    \A address \in CallAddresses :
        /\ (steps >= 1 /\ program = CALL(address)) =>
               /\ IsFarJump(address, RA, RA)
               /\ (start.pc + address) % 4 = 0 =>
                      /\ result = "Ok"
                      /\ executed = 2
                      /\ pc = start.pc + address
                      /\ Index(Processor, RA) = start.pc + 8
        /\ (steps >= 1 /\ program = TAIL(address)) =>
               /\ IsFarJump(address, ZERO, T1)
               /\ (start.pc + address) % 4 = 0 =>
                      /\ result = "Ok"
                      /\ executed = 2
                      /\ pc = start.pc + address
                      /\ Index(Processor, RA) = Index(start, RA)

\* CALL(50_000_000) has run at pc = 1000 with ra = 42
C20_Witness ==
    /\ steps >= 1
    /\ program = CALL(50000000)
    /\ start.pc = 1000
    /\ Index(start, RA) = 42
    /\ pc = 50001000
    /\ Index(Processor, RA) = 1008

(***************************************************************************)
(* Sequences of instructions executed from a pc that is a multiple of 4    *)
(* (src/src/instructions/impl_instruction_set.rs:28-257).                  *)
(***************************************************************************)
MaxAlignedSteps == 2

AlignedInstructions ==
    [op : BranchOps, rs1 : {ZERO}, rs2 : {A0}, offset : {-4, 2, 4}]
    \cup [op : {"JAL"}, rd : {RA}, offset : {-8, 2, 4}]
    \cup [op : {"JALR"}, rd : {RA}, rs1 : {A0}, offset : {-1, 0, 2}]
    \cup {[op |-> "ADDI", rd |-> A0, rs1 |-> A0, imm |-> 1]}

AlignedPrograms == {<<i>> : i \in AlignedInstructions}

InitAligned == InitArranged({0}, {0, 85, 86}, {0}, {0, 84})

ExecuteAligned == \E seq \in AlignedPrograms : TestExecute(seq, MaxAlignedSteps)

NextAligned == ExecuteAligned

SpecAligned == InitAligned /\ [][NextAligned]_vars

\* C21: from a pc that is a multiple of 4, the pc is a multiple of 4 after
\* every sequence of instructions that each return Ok (an instruction that
\* returns an exception leaves the pc where it was).
C21_PcStaysAligned == pc % 4 = 0

\* two jumps or taken branches in a row have returned Ok and moved the pc
C21_Witness ==
    /\ steps = 2
    /\ result = "Ok"
    /\ LastInstruction.op = "JALR"
    /\ prev.pc = 4
    /\ pc = 84

(***************************************************************************)
(* Branches executed on arranged operands, as execute_beq .. execute_bgeu  *)
(* do (src/src/instructions/impl_instruction_set.rs:1345-1640).            *)
(***************************************************************************)
MaxBranchSteps == 1

BranchInstructions ==
    [op : BranchOps, rs1 : {RA}, rs2 : {A0}, offset : {-4, 2, 6, 8}]

BranchPrograms == {<<i>> : i \in BranchInstructions}

InitBranch ==
    InitArranged({0, 5, -1, MinI32}, {0, 5, -1, MinI32, MaxI32}, {0}, {0, 84})

ExecuteBranchProgram ==
    \E seq \in BranchPrograms : TestExecute(seq, MaxBranchSteps)

NextBranch == ExecuteBranchProgram

SpecBranch == InitBranch /\ [][NextBranch]_vars

\* a < b with both reinterpreted as unsigned 32-bit numbers: a negative
\* number stands for itself plus 2^32
LessAsUnsigned(a, b) ==
    IF (a < 0) = (b < 0) THEN a < b ELSE b < 0

\* the condition of the branch executed last, on the operands it read
ConditionHolds ==
    LET a == Index(prev, LastInstruction.rs1)
        b == Index(prev, LastInstruction.rs2)
        o == LastInstruction.op
    IN  \/ o = "BEQ" /\ a = b
        \/ o = "BNE" /\ a # b
        \/ o = "BLT" /\ a < b
        \/ o = "BGE" /\ ~(a < b)
        \/ o = "BLTU" /\ LessAsUnsigned(a, b)
        \/ o = "BGEU" /\ ~LessAsUnsigned(a, b)

\* C22: a branch is taken exactly when its condition holds: then it goes to
\* pc + offset or fails validation leaving the pc; when the condition is
\* false it returns Ok with pc + 4, whatever the alignment of the offset.
C22_BranchTakenIffCondition ==
    (executed = 1 /\ LastInstruction.op \in BranchOps) =>
        IF ConditionHolds
        THEN \/ result = "Ok" /\ pc = prev.pc + LastInstruction.offset
             \/ result = "MisalignedInstructionFetch" /\ pc = prev.pc
        ELSE result = "Ok" /\ pc = prev.pc + 4

\* BLTU with rs1 = 5 and rs2 = -1 is taken (BLT is not), and BGEU with the
\* same operands and a misaligned offset falls through
C22_Witness ==
    /\ executed = 1
    /\ Index(prev, RA) = 5
    /\ Index(prev, A0) = -1
    /\ result = "Ok"
    /\ \/ LastInstruction.op = "BLTU" /\ LastInstruction.offset = 8
          /\ pc = prev.pc + 8
       \/ LastInstruction.op = "BGEU" /\ LastInstruction.offset = 2
          /\ pc = prev.pc + 4

MaxCompareSteps == 1

CompareInstructions ==
    [op : {"SLTI", "SLTIU"}, rd : {T1}, rs1 : {A0},
     imm : {I12_MIN, -43, -1, 0, 1, 43, I12_MAX}]
    \cup [op : {"SLT", "SLTU"}, rd : {T1}, rs1 : {A0}, rs2 : {RA}]

ComparePrograms == {<<i>> : i \in CompareInstructions}

InitCompare ==
    InitArranged({0, 42, -1, MinI32, MaxI32},
                 {0, 42, -1, -43, -44, 2047, -2048, MinI32, MaxI32}, {0}, {0})

ExecuteCompare == \E seq \in ComparePrograms : TestExecute(seq, MaxCompareSteps)

NextCompare == ExecuteCompare

SpecCompare == InitCompare /\ [][NextCompare]_vars

\* a < b as unsigned 32-bit numbers, read from their bits: at the highest
\* bit where they differ, a has 0 and b has 1
LessByBits(a, b) ==
    \E k \in 0 .. 31 :
        /\ Bit(a, k) = 0
        /\ Bit(b, k) = 1
        /\ \A j \in (k + 1) .. 31 : Bit(a, j) = Bit(b, j)

\* C24: SLTIU leaves rd = 1 exactly when rs1 as unsigned is less than the
\* immediate sign-extended to 32 bits and then taken as unsigned (a
\* negative immediate is a large unsigned number), else rd = 0; SLTU
\* compares rs1 and rs2 as unsigned in the same way.
C24_UnsignedComparisons ==
    (executed = 1 /\ LastInstruction.op \in {"SLTIU", "SLTU"}) =>
        LET a == Index(prev, LastInstruction.rs1)
            b == IF LastInstruction.op = "SLTIU" THEN LastInstruction.imm
                 ELSE Index(prev, LastInstruction.rs2)
        IN  /\ result = "Ok"
            /\ Index(Processor, LastInstruction.rd) =
                   (IF LessByBits(a, b) THEN 1 ELSE 0)

\* SLTIU with rs1 = 42 and the immediate -43 has left 1
C24_Witness ==
    /\ executed = 1
    /\ LastInstruction.op = "SLTIU"
    /\ LastInstruction.imm = -43
    /\ Index(prev, A0) = 42
    /\ Index(Processor, T1) = 1

(***************************************************************************)
(* The fields of decoded instructions, in the codec specification          *)
(* SpecCodec (src/src/instructions/mod.rs:763-1020).                       *)
(***************************************************************************)
\* C25: for every word that decodes to SLLI, SRLI or SRAI the decoded shamt
\* is the 5-bit number in bits 20 .. 24 of the word, so it is in 0 .. 31.
C25_DecodedShamtIsFiveBits ==
    (stage = "decoded" /\ res.ok /\ inst.op \in {"SLLI", "SRLI", "SRAI"}) =>
        /\ inst.shamt = (word \div 1048576) % 32
        /\ inst.shamt \in 0 .. 31

\* C26: for every word with the LUI or AUIPC opcode the decoded imm is the
\* 20-bit field of bits 12 .. 31 sign-extended: the word shifted right
\* arithmetically by 12, negative exactly when bit 31 of the word is set.
C26_DecodedUpperImmediateIsSigned ==
    (stage = "decoded" /\ res.ok /\ inst.op \in {"LUI", "AUIPC"}) =>
        /\ inst.imm = word \div 4096
        /\ (inst.imm < 0) = (word < 0)

(***************************************************************************)
(* PseudoinstructionMappingIter                                            *)
(* (src/src/instructions/pseudoinstructions.rs:10-71): Zero, One, Two and  *)
(* Three are the sequences of 0 to 3 instructions; None is NoInstruction.  *)
(***************************************************************************)
MaxIteratorCalls == 4

\* Iterator::next
IteratorNext(it) ==
    CASE Len(it) = 3 -> [item |-> it[1], iterator |-> <<it[2], it[3]>>]
      [] Len(it) = 2 -> [item |-> it[1], iterator |-> <<it[2]>>]
      [] Len(it) = 1 -> [item |-> it[1], iterator |-> <<>>]
      [] Len(it) = 0 -> [item |-> NoInstruction, iterator |-> it]

\* a next_back that yields from the front
IteratorNextBackFromFront(it) == IteratorNext(it)

\* DoubleEndedIterator::next_back
IteratorNextBack(it) ==
    CASE Len(it) = 3 -> [item |-> it[3], iterator |-> <<it[1], it[2]>>]
      [] Len(it) = 2 -> [item |-> it[2], iterator |-> <<it[1]>>]
      [] Len(it) = 1 -> [item |-> it[1], iterator |-> <<>>]
      [] Len(it) = 0 -> [item |-> NoInstruction, iterator |-> it]

\* Iterator::size_hint, whose two bounds are the same number
SizeHint(it) ==
    CASE Len(it) = 3 -> 3
      [] Len(it) = 2 -> 2
      [] Len(it) = 1 -> 1
      [] Len(it) = 0 -> 0

\* the Three of iter_test and rev_iter_test, with SP = x2 and A1 = x11
TestThree ==
    <<[op |-> "ADD", rd |-> 2, rs1 |-> A0, rs2 |-> A2],
      [op |-> "SUB", rd |-> 2, rs1 |-> A0, rs2 |-> A1],
      [op |-> "OR", rd |-> 2, rs1 |-> A0, rs2 |-> A1]>>

IteratorSources == {<<>>, CSRR(A0, 20), LI(A0, 5000), CALL(8), TestThree}

\* a pseudoinstruction is constructed; returned tells that one exists
NewIterator ==
    \E s \in IteratorSources :
        /\ steps = 0
        /\ returned = NoInstruction
        /\ iterator' = s
        /\ source' = s
        /\ front' = <<>>
        /\ back' = <<>>
        /\ before' = s
        /\ returned' = [op |-> "new"]
        /\ UNCHANGED <<procVars, overflow_checks, histVars, codecVars,
                       runVars>>

\* iterator.next()
CallNext ==
    /\ returned # NoInstruction \/ steps > 0
    /\ steps < MaxIteratorCalls
    /\ iterator' = IteratorNext(iterator).iterator
    /\ returned' = IteratorNext(iterator).item
    /\ front' = IF IteratorNext(iterator).item = NoInstruction THEN front
                ELSE Append(front, IteratorNext(iterator).item)
    /\ before' = iterator
    /\ steps' = steps + 1
    /\ UNCHANGED <<procVars, overflow_checks, program, executed, result,
                   start, prev, source, back, codecVars, runVars>>

\* iterator.next_back()
CallNextBack ==
    /\ returned # NoInstruction \/ steps > 0
    /\ steps < MaxIteratorCalls
    /\ iterator' = IteratorNextBack(iterator).iterator
    /\ returned' = IteratorNextBack(iterator).item
    /\ back' = IF IteratorNextBack(iterator).item = NoInstruction THEN back
               ELSE Append(back, IteratorNextBack(iterator).item)
    /\ before' = iterator
    /\ steps' = steps + 1
    /\ UNCHANGED <<procVars, overflow_checks, program, executed, result,
                   start, prev, source, front, codecVars, runVars>>

NextIterator == NewIterator \/ CallNext \/ CallNextBack

SpecIterator == Init /\ [][NextIterator]_vars

RECURSIVE Reversed(_)
Reversed(s) == IF s = <<>> THEN <<>> ELSE Append(Reversed(Tail(s)), Head(s))

\* C27: an expansion of n instructions, 0 <= n <= 3, is a finite
\* double-ended sequence: under every interleaving of next and next_back the
\* instructions yielded by next, those not yet yielded and those yielded by
\* next_back in reverse make up the expansion, each once and in order;
\* size_hint is the number not yet yielded; a call returns None exactly when
\* all were yielded before it, and then leaves the iterator exhausted.
C27_DoubleEndedSequence ==
    /\ Len(source) \in 0 .. 3
    /\ front \o iterator \o Reversed(back) = source
    /\ SizeHint(iterator) = Len(source) - Len(front) - Len(back)
    /\ steps >= 1 =>
           /\ (returned = NoInstruction) = (before = <<>>)
           /\ before = <<>> => iterator = <<>>

\* a Three was taken from both ends, and a further call returned None
C27_Witness ==
    /\ source = TestThree
    /\ front = <<TestThree[1], TestThree[2]>>
    /\ back = <<TestThree[3]>>
    /\ steps = 4
    /\ returned = NoInstruction
    /\ iterator = <<>>

(***************************************************************************)
(* One instruction of every kind executed on a processor with arranged     *)
(* registers, CSRs and memory                                              *)
(* (src/src/instructions/impl_instruction_set.rs:28-257).                  *)
(***************************************************************************)
MaxFrameSteps == 1

FrameInstructions ==
    [op : {"LUI", "AUIPC"}, rd : {T1}, imm : {1, 524287}]
    \cup [op : {"ADDI", "XORI", "SLTIU"}, rd : {T1}, rs1 : {A0}, imm : {-1}]
    \cup [op : {"ADD", "SLL", "AND"}, rd : {ZERO, A0}, rs1 : {A0}, rs2 : {RA}]
    \cup [op : {"SRLI"}, rd : {T1}, rs1 : {A0}, shamt : {4}]
    \cup [op : LoadOps, rd : {T1}, rs1 : {RA}, offset : {0, 3}]
    \cup [op : StoreOps, rs1 : {RA}, rs2 : {A0}, offset : {0, 3}]
    \cup [op : {"JAL"}, rd : {ZERO, RA}, offset : {8}]
    \cup [op : {"JALR"}, rd : {T1}, rs1 : {RA}, offset : {4}]
    \cup [op : BranchOps, rs1 : {RA}, rs2 : {A0}, offset : {8}]
    \cup [op : {"CSRRW", "CSRRS", "CSRRC"}, rd : {T1}, rs1 : {ZERO, A0},
          csr : {20}]
    \cup [op : {"CSRRWI", "CSRRSI", "CSRRCI"}, rd : {T1}, imm : {19},
          csr : {20}]

FramePrograms == {<<i>> : i \in FrameInstructions}

InitFrame ==
    /\ \E ra \in {0, 4}, a0 \in {-1, 305419896}, csr20 \in {0, 12},
          m \in {MemoryState(<<>>), MemoryState(<< <<0, 305419896>> >>)} :
          LET p == [ProcessorState(ra, a0, csr20, 0) EXCEPT
                        !.memory = m,
                        !.csrs = CsrReadWrite(@, 42, 7).bank]
          IN  /\ pc = p.pc
              /\ registers = p.registers
              /\ csrs = p.csrs
              /\ memory = p.memory
              /\ start = p
              /\ prev = p
    /\ zero_scratch = 0
    /\ overflow_checks \in BOOLEAN
    /\ InitHistory
    /\ InitCodec

ExecuteFrame == \E seq \in FramePrograms : TestExecute(seq, MaxFrameSteps)

NextFrame == ExecuteFrame

SpecFrame == InitFrame /\ [][NextFrame]_vars

\* the instruction executed last has a destination register
WritesRd ==
    LastInstruction.op \notin StoreOps \cup BranchOps

IsCsrInstruction ==
    LastInstruction.op \in
        {"CSRRW", "CSRRS", "CSRRC", "CSRRWI", "CSRRSI", "CSRRCI"}

\* C28: an instruction that returns Ok changes only its destinations: no
\* register but rd (and none at all for a store or a branch), no CSR cell
\* but the one a CSR instruction names, and no byte of the memory but the
\* 1, 2 or 4 bytes a store addresses; the bytes a store or load adds to the
\* memory beyond those are zero.  (A bank names the cells that are not
\* zero: a cell in neither bank is zero before and after.)
C28_OnlyDestinationsChange ==
    (executed = 1 /\ result = "Ok") =>
        LET i == LastInstruction
        IN  /\ \A r \in Register :
                   (WritesRd /\ r = i.rd)
                   \/ Index(Processor, r) = Index(prev, r)
            /\ \A c \in DOMAIN csrs \cup DOMAIN prev.csrs :
                   (IsCsrInstruction /\ c = i.csr)
                   \/ CsrCell(csrs, c) = CsrCell(prev.csrs, c)
            /\ \A k \in 0 .. (Len(memory) - 1) :
                   \/ /\ i.op \in StoreOps
                      /\ k >= Index(prev, i.rs1) + i.offset
                      /\ k < Index(prev, i.rs1) + i.offset + AccessWidth(i.op)
                   \/ ByteOf(memory, k) = ByteOf(prev.memory, k)
            /\ Len(memory) >= Len(prev.memory)

\* SB has stored one byte into a word written before, next to bytes it left
C28_Witness ==
    /\ executed = 1
    /\ result = "Ok"
    /\ LastInstruction.op = "SB"
    /\ Index(prev, RA) + LastInstruction.offset = 3
    /\ ByteOf(prev.memory, 3) = 18
    /\ ByteOf(memory, 3) = 255
    /\ ByteOf(memory, 2) = 52
    /\ Len(memory) = 4

(***************************************************************************)
(* An instruction of an expansion executed after encode and decode, as it  *)
(* is when a program is stored with store_instructions and fetched         *)
(* (src/src/test/macros.rs:216-234), next to the same instruction executed *)
(* as constructed (src/src/test/macros.rs:146-173).                        *)
(***************************************************************************)
MaxRoundTripSteps == 1

RoundTripExpansions ==
    {LI(A0, imm) : imm \in {0, -1, 5000, -5000, MaxI32, MinI32}}
    \cup {CALL(address) : address \in {8, 2048, 4092, -4, 50000000}}
    \cup {TAIL(address) : address \in {8, 2048, 4092, -4, 50000000}}
    \cup {CSRR(A0, 20), CSRW(A0, 20)}

InitRoundTrip == InitArranged({0, 4096}, {0, 42}, {0, 12}, {0, 1000})

\* execute(decode(encode(i))) for an instruction i of an expansion
ExecuteEncoded ==
    \E seq \in RoundTripExpansions : \E k \in 1 .. Len(seq) :
        LET d == Decode(Encode(seq[k]))
            r == IF d.ok THEN Execute(d.instruction, Processor, overflow_checks)
                 ELSE Raise(Processor, d.exception)
        IN  /\ steps < MaxRoundTripSteps
            /\ result # "panic"
            /\ inst' = seq[k]
            /\ enc' = Encode(seq[k])
            /\ res' = d
            /\ stage' = "executed"
            /\ SetProcessor(r.p)
            /\ result' = r.result
            /\ program' = IF d.ok THEN <<d.instruction>> ELSE <<>>
            /\ executed' = IF d.ok THEN 1 ELSE 0
            /\ start' = Processor
            /\ prev' = Processor
            /\ steps' = steps + 1
            /\ UNCHANGED <<word, overflow_checks, runVars, iterVars>>

NextRoundTrip == ExecuteEncoded

SpecRoundTrip == InitRoundTrip /\ [][NextRoundTrip]_vars

\* C29: for every instruction i the expander emits and every processor
\* state, executing decode(encode(i)) returns what executing i returns and
\* leaves the processor that executing i leaves.
C29_EncodedExecutesAsConstructed ==
    stage = "executed" =>
        /\ res.ok
        /\ Execute(inst, prev, overflow_checks).result = result
        /\ Execute(inst, prev, overflow_checks).p = Processor

(***************************************************************************)
(* The immediate codecs on their own: encode applied to the values of the  *)
(* field's range, decode applied to the result and to arbitrary words      *)
(***************************************************************************)
ImmediateCodecs == {"ImmI", "SImmI", "BImm", "JImm"}

ImmediateValues(codec) ==
    CASE codec \in {"ImmI", "SImmI"} ->
            {I12_MIN, -1366, -43, -1, 0, 1, 43, 1365, I12_MAX}
      [] codec = "BImm" ->
            {-4096, -2730, -2050, -2, 0, 2, 1364, 2048, 4094}
      [] codec = "JImm" ->
            {-1048576, -699052, -4098, -2, 0, 2, 2048, 4096, 699050, 1048574}

ImmediateWords ==
    {0, -1, 1, 128, 4095, -4096, 1048576, 1431655765, -1431655766,
     MinI32, MaxI32}

ImmediateEncode(codec, value) ==
    CASE codec = "ImmI" -> ImmIEncode(value)
      [] codec = "SImmI" -> SImmIEncode(value)
      [] codec = "BImm" -> BImmEncode(value)
      [] codec = "JImm" -> JImmEncode(value)

ImmediateDecode(codec, value) ==
    CASE codec = "ImmI" -> ImmIDecode(value)
      [] codec = "SImmI" -> SImmIDecode(value)
      [] codec = "BImm" -> BImmDecode(value)
      [] codec = "JImm" -> JImmDecode(value)

\* X::encode(v)
EncodeImmediate ==
    \E codec \in ImmediateCodecs : \E value \in ImmediateValues(codec) :
        /\ stage' = "immediate_encoded"
        /\ inst' = [op |-> codec, value |-> value]
        /\ enc' = ImmediateEncode(codec, value)
        /\ UNCHANGED <<word, res>>
        /\ UNCHANGED <<procVars, overflow_checks, histVars, runVars, iterVars>>

\* X::decode(X::encode(v))
DecodeEncodedImmediate ==
    /\ stage = "immediate_encoded"
    /\ stage' = "immediate_redecoded"
    /\ word' = enc
    /\ res' = [ok |-> TRUE, value |-> ImmediateDecode(inst.op, enc)]
    /\ UNCHANGED <<inst, enc>>
    /\ UNCHANGED <<procVars, overflow_checks, histVars, runVars, iterVars>>

\* X::decode(w) for any word w
DecodeImmediate ==
    \E codec \in ImmediateCodecs : \E w \in ImmediateWords :
        /\ stage' = "immediate_decoded"
        /\ word' = w
        /\ inst' = [op |-> codec, value |-> ImmediateDecode(codec, w)]
        /\ res' = [ok |-> TRUE, value |-> ImmediateDecode(codec, w)]
        /\ UNCHANGED enc
        /\ UNCHANGED <<procVars, overflow_checks, histVars, runVars, iterVars>>

NextImmediate == EncodeImmediate \/ DecodeEncodedImmediate \/ DecodeImmediate

SpecImmediate == Init /\ [][NextImmediate]_vars

\* the bit positions of the immediate in the instruction word, from the
\* layout tables of the I, S, B and J formats
FieldPositions(codec) ==
    CASE codec = "ImmI" -> 20 .. 31
      [] codec \in {"SImmI", "BImm"} -> (7 .. 11) \cup (25 .. 31)
      [] codec = "JImm" -> 12 .. 31

\* C30: for ImmI and SImmI over [-2048, 2047], BImm over the even values of
\* [-4096, 4094] and JImm over the even values of [-2^20, 2^20 - 2],
\* decode(encode(v)) = v and encode(v) has no bit set outside the positions
\* of the field; BImm::decode and JImm::decode return an even value for
\* every word.
C30_ImmediateCodecsRoundTrip ==
    /\ stage = "immediate_redecoded" => res.value = inst.value
    /\ stage \in {"immediate_encoded", "immediate_redecoded"} =>
          \A k \in 0 .. 31 :
              (IF k = 31 THEN enc < 0 ELSE (enc \div Pow2(k)) % 2 = 1)
                  => k \in FieldPositions(inst.op)
    /\ (stage = "immediate_decoded" /\ inst.op \in {"BImm", "JImm"}) =>
          res.value % 2 = 0

\* the most negative J immediate has come back from its encoding, which has
\* bit 31 set
C30_Witness ==
    /\ stage = "immediate_redecoded"
    /\ inst = [op |-> "JImm", value |-> -1048576]
    /\ enc < 0
    /\ res.value = -1048576

=============================================================================
